---- MODULE Spec2Model ----
(***************************************************************************)
(* Wallet ledger of Sherifdeji/wallet-service: WalletService (createWallet,*)
(* initializeDeposit, creditWalletFromWebhook, transfer) running as        *)
(* concurrent request handlers over one PostgreSQL datastore.              *)
(*                                                                         *)
(* The datastore is modelled as the committed rows (wallets, txns), the    *)
(* row locks taken by SELECT ... FOR UPDATE (lockW, lockT) and, for each   *)
(* handler, the rows it read and the writes it has made inside its open    *)
(* database transaction (loc).  Writes made inside dataSource.transaction  *)
(* reach the committed rows only at commit; an exception rolls them back.  *)
(***************************************************************************)
EXTENDS Integers, Sequences, FiniteSets, TLC

\* ---------------------------------------------------------------- bounds
NumProcs == 3      \* concurrent request handlers
MaxOps == 3        \* operations started in one behaviour
NumUsers == 3      \* users known to the identity collaborator
MaxTime == 2       \* hours the clock runs to

\* ------------------------------------------------------ program constants
MinAmount == 100   \* minimum transfer / deposit, in KOBO
MAX_ATTEMPTS == 10 \* wallet number draws before giving up
MaxActiveKeys == 5 \* active API keys a user may have

Procs == 1..NumProcs
Users == 1..NumUsers

\* Amounts a caller or a webhook may send: below the minimum, the minimum.
AmountInputs == {MinAmount - 50, MinAmount}

\* Amounts a caller may ask to transfer or deposit: those, zero and a
\* negative one.
RequestAmounts == AmountInputs \cup {0, 0 - MinAmount}

\* `45${randomDigits}`: the two-digit prefix and the 8 random digits drawn.
FormatWalletNumber(randomDigits) == [prefix |-> 45, digits |-> randomDigits]

\* Math.floor(10000000 + Math.random() * 90000000), a few of its values.
RandomDigits == {10000000 + u : u \in Users}
WalletNumbers == {FormatWalletNumber(d) : d \in RandomDigits}

\* `TXN_${Date.now()}_${random}` and `TRF_${Date.now()}_${uuid}` + leg:
\* n stands for the (time, random) part, leg for the "_OUT" / "_IN" suffix.
DepositRef(n) == [kind |-> "TXN", n |-> n, leg |-> "none"]
TransferRef(n, leg) == [kind |-> "TRF", n |-> n, leg |-> leg]

\* The (time, random) parts a new reference may get: one never drawn
\* before, or the one of a stored reference of the same kind.  (A part used
\* only by references of the other kind makes a reference as new as a part
\* never drawn.)
Draws(kind, next, stored) ==
  {next} \cup {r.n : r \in {x \in stored : x.kind = kind}}

NoLocals ==
  [user |-> 0, sender |-> 0, recipient |-> 0,
   amount |-> 0, senderBal |-> 0, recipientBal |-> 0,
   newSenderBal |-> 0, newRecipientBal |-> 0,
   ref |-> DepositRef(0), txn |-> 0, walletNumber |-> 0, value |-> <<>>,
   op |-> "none", identity |-> 0, keyId |-> 0, name |-> "none",
   permissions |-> {}, expiry |-> "none"]

VARIABLES
  wallets,   \* committed wallets table: id -> [userId, walletNumber, balance]
  txns,      \* committed transactions table: id -> row
  lockW,     \* wallet id -> handler holding its row lock, 0 when free
  lockT,     \* transaction id -> handler holding its row lock, 0 when free
  pc,        \* handler -> position in the operation it runs
  loc,       \* handler -> locals and uncommitted writes of its operation
  result,    \* what the step just taken reported, if it ended an operation
  nextRef,   \* the next (time, random) reference part never drawn before
  ops,       \* operations started so far
  credited,  \* history: wallet id -> total amount credited by webhooks
  credits,   \* history: transaction id -> number of times it was credited
  raced,     \* history: handler -> the deposit it is reconciling has been
             \*   credited by another handler since it was called
  users,     \* committed users table: id -> [googleId, email]
  apiKeys,   \* committed api_keys table: id -> row
  now        \* the clock (Date.now()), in hours

vars == <<wallets, txns, lockW, lockT, pc, loc, result, nextRef, ops,
          credited, credits, raced, users, apiKeys, now>>

\* The tables of the wallet module and what goes with them.
ledgerVars == <<wallets, txns, lockW, lockT, nextRef, credited, credits,
                raced>>

\* The tables of the users and api-keys modules, and the clock.
accessVars == <<users, apiKeys, now>>

\* ---------------------------------------------------------------- helpers
WalletIds == DOMAIN wallets
TxnIds == DOMAIN txns

\* walletRepository.findOne({ where: { userId } }): 0 when there is none.
WalletOfUser(u) ==
  IF \E w \in WalletIds : wallets[w].userId = u
  THEN CHOOSE w \in WalletIds : wallets[w].userId = u
  ELSE 0

\* walletRepository.findOne({ where: { walletNumber } }): 0 when none.
WalletOfNumber(num) ==
  IF \E w \in WalletIds : wallets[w].walletNumber = num
  THEN CHOOSE w \in WalletIds : wallets[w].walletNumber = num
  ELSE 0

\* findOne(Transaction, { where: { reference } }): 0 when there is none.
TxnOfRef(ref) ==
  IF \E t \in TxnIds : txns[t].reference = ref
  THEN CHOOSE t \in TxnIds : txns[t].reference = ref
  ELSE 0

RefExists(ref) == TxnOfRef(ref) # 0

\* The references of all stored transactions.
StoredRefs == {txns[t].reference : t \in TxnIds}

\* CanLock with reads that take no row lock and so never wait.
CanLock_NoWait(lock, row, p) == TRUE

\* A locking read by p gets the row lock when no other handler holds it.
CanLock(lock, row, p) == lock[row] \in {0, p}

\* ReleaseW with the wallet row locks kept after commit or rollback.
ReleaseW_KeepsLocks(p) == lockW

\* Release of every row lock a handler holds, at commit or rollback.
ReleaseW(p) == [w \in DOMAIN lockW |-> IF lockW[w] = p THEN 0 ELSE lockW[w]]
ReleaseT(p) == [t \in DOMAIN lockT |-> IF lockT[t] = p THEN 0 ELSE lockT[t]]

\* A new request goes to the first idle handler: handlers share no state
\* but the datastore, so which idle one takes a request makes no difference.
Accepts(p) == pc[p] = "idle" /\ \A q \in Procs : q < p => pc[q] # "idle"

\* A handler returns (or throws): back to idle with its outcome.
Finish(p, outcome) ==
  /\ pc' = [pc EXCEPT ![p] = "idle"]
  /\ loc' = [loc EXCEPT ![p] = NoLocals]
  /\ result' = [outcome EXCEPT !.proc = p]

\* WebhookResponse with the error of a failed reconciliation rethrown.
WebhookResponse_Rethrows(op, outcome) ==
  IF op = "credit"
  THEN IF outcome \in {"success", "already_processed"}
       THEN "ok" ELSE "InternalServerError"
  ELSE IF op # "webhook" THEN "none"
  ELSE IF outcome = "RawBodyRequired" THEN "BadRequest"
  ELSE IF outcome \in {"MissingSignature", "InvalidSignature"}
       THEN "Unauthorized"
  ELSE "ok"

\* What handlePaystackWebhook answers the gateway: the exceptions it throws
\* before the event is looked at, { status: true } otherwise, also when
\* creditWalletFromWebhook threw (the catch block only logs).  "none" for
\* the operations that are not webhook deliveries.
WebhookResponse(op, outcome) ==
  IF op = "credit" THEN "ok"
  ELSE IF op # "webhook" THEN "none"
  ELSE IF outcome = "RawBodyRequired" THEN "BadRequest"
  ELSE IF outcome \in {"MissingSignature", "InvalidSignature"}
       THEN "Unauthorized"
  ELSE "ok"

\* What a handler reports: the operation, how it ended, who ran it, the
\* answer of the webhook entry point when it is a webhook delivery, and
\* the value a read operation returns.
Outcome(op, outcome, l) ==
  [op |-> op, outcome |-> outcome, proc |-> 0,
   response |-> WebhookResponse(op, outcome), value |-> l.value]

NoResult == Outcome("none", "none", NoLocals)

\* A step that ends no operation reports nothing.
Continue == result' = NoResult

RECURSIVE SumSeq(_, _)
SumSeq(f, n) == IF n = 0 THEN 0 ELSE f[n] + SumSeq(f, n - 1)

\* Sum of all committed wallet balances.
TotalBalance(ws) == SumSeq([w \in DOMAIN ws |-> ws[w].balance], Len(ws))

\* ------------------------------------------------------------- API keys
\* A row of the api_keys table.
KeyRow(userId, name, keyHash, permissions, expiresAt, revoked) ==
  [userId |-> userId, name |-> name, keyHash |-> keyHash,
   permissions |-> permissions, expiresAt |-> expiresAt,
   revoked |-> revoked]

\* `sk_live_${randomBytes(32).toString('hex')}`: the n-th value drawn.  Two
\* draws of 32 random bytes are taken to differ.
generateApiKey(n) == [prefix |-> "sk_live_", random |-> n]

\* createHash('sha256').update(apiKey).digest('hex')
hashApiKey(apiKey) == <<"sha256", apiKey>>

\* The duration of each expiry format, in hours.
expiryMap == ("1H" :> 1) @@ ("1D" :> 24) @@ ("1M" :> 30 * 24)
               @@ ("1Y" :> 365 * 24)

\* expiry.toUpperCase(), on the formats a caller sends.
toUpperCase(expiry) ==
  CASE expiry = "1h" -> "1H"
    [] expiry = "1d" -> "1D"
    [] expiry = "1m" -> "1M"
    [] expiry = "1y" -> "1Y"
    [] expiry = "2w" -> "2W"
    [] OTHER -> expiry

\* convertExpiryToDate(expiry) called at time t: the expiry time, or 0 for
\* the BadRequestException of an unknown format.
convertExpiryToDate(expiry, t) ==
  IF toUpperCase(expiry) \in DOMAIN expiryMap
  THEN t + expiryMap[toUpperCase(expiry)]
  ELSE 0

\* The keys at the start: the first user created four keys an hour ago, for
\* a day each; the second user has a key that has just expired and one
\* that was revoked.
InitialKeys ==
  <<KeyRow(1, "ci", hashApiKey(generateApiKey(1)), {"read"},
           convertExpiryToDate("1D", 0), FALSE),
    KeyRow(1, "ci", hashApiKey(generateApiKey(2)), {"deposit"},
           convertExpiryToDate("1D", 0), FALSE),
    KeyRow(1, "ci", hashApiKey(generateApiKey(3)), {"transfer"},
           convertExpiryToDate("1D", 0), FALSE),
    KeyRow(1, "ci", hashApiKey(generateApiKey(4)),
           {"deposit", "transfer", "read"},
           convertExpiryToDate("1D", 0), FALSE),
    KeyRow(2, "ops", hashApiKey(generateApiKey(5)), {"read", "transfer"},
           convertExpiryToDate("1H", 0), FALSE),
    KeyRow(2, "ops", hashApiKey(generateApiKey(6)), {"read"},
           convertExpiryToDate("1D", 0), TRUE)>>

\* ------------------------------------------------------------------- Init
\* Two users have signed up and each has had one deposit credited; the
\* second has initialized a further deposit, which is still pending; the
\* third user has no wallet yet.
Init ==
  /\ wallets = <<[userId |-> 1, walletNumber |-> FormatWalletNumber(10000001),
                  balance |-> 2 * MinAmount],
                 [userId |-> 2, walletNumber |-> FormatWalletNumber(10000002),
                  balance |-> MinAmount]>>
  /\ txns = <<[walletId |-> 1, type |-> "deposit", amount |-> 2 * MinAmount,
               status |-> "success", reference |-> DepositRef(1),
               metadata |-> {"email", "userId", "wallet_number",
                             "paystack_webhook", "processed_at"},
               counterpart |-> 0],
              [walletId |-> 2, type |-> "deposit", amount |-> MinAmount,
               status |-> "success", reference |-> DepositRef(2),
               metadata |-> {"email", "userId", "wallet_number",
                             "paystack_webhook", "processed_at"},
               counterpart |-> 0],
              [walletId |-> 2, type |-> "deposit", amount |-> MinAmount,
               status |-> "pending", reference |-> DepositRef(3),
               metadata |-> {"email", "userId", "wallet_number"},
               counterpart |-> 0]>>
  /\ lockW = <<0, 0>>
  /\ lockT = <<0, 0, 0>>
  /\ pc = [p \in Procs |-> "idle"]
  /\ loc = [p \in Procs |-> NoLocals]
  /\ result = NoResult
  /\ nextRef = 4
  /\ ops = 0
  /\ credited = <<2 * MinAmount, MinAmount>>
  /\ credits = <<1, 1, 0>>
  /\ raced = [p \in Procs |-> FALSE]
  /\ users = [u \in Users |-> [googleId |-> u, email |-> u]]
  /\ apiKeys = InitialKeys
  /\ now = 1

\* --------------------------------------------------------------- transfer
\* transfer(), up to the start of the database transaction: the minimum
\* amount, the sender's wallet, the self-transfer check, the recipient's
\* wallet and the unlocked balance check, all on committed rows.
\* TransferPreCheck without the unlocked balance check.
TransferPreCheck_NoBalanceCheck(u, num, a) ==
  LET sender == WalletOfUser(u)
      recipient == WalletOfNumber(num)
  IN  IF a < MinAmount THEN "MinimumTransfer"
      ELSE IF sender = 0 THEN "SenderNotFound"
      ELSE IF wallets[sender].walletNumber = num THEN "SelfTransfer"
      ELSE IF recipient = 0 THEN "RecipientNotFound"
      ELSE "pass"

\* TransferPreCheck without the minimum amount.
TransferPreCheck_NoMinimum(u, num, a) ==
  LET sender == WalletOfUser(u)
      recipient == WalletOfNumber(num)
  IN  IF sender = 0 THEN "SenderNotFound"
      ELSE IF wallets[sender].walletNumber = num THEN "SelfTransfer"
      ELSE IF recipient = 0 THEN "RecipientNotFound"
      ELSE IF wallets[sender].balance < a THEN "InsufficientBalance"
      ELSE "pass"

\* TransferPreCheck without the self-transfer check.
TransferPreCheck_NoSelfCheck(u, num, a) ==
  LET sender == WalletOfUser(u)
      recipient == WalletOfNumber(num)
  IN  IF a < MinAmount THEN "MinimumTransfer"
      ELSE IF sender = 0 THEN "SenderNotFound"
      ELSE IF recipient = 0 THEN "RecipientNotFound"
      ELSE IF wallets[sender].balance < a THEN "InsufficientBalance"
      ELSE "pass"

TransferPreCheck(u, num, a) ==
  LET sender == WalletOfUser(u)
      recipient == WalletOfNumber(num)
  IN  IF a < MinAmount THEN "MinimumTransfer"
      ELSE IF sender = 0 THEN "SenderNotFound"
      ELSE IF wallets[sender].walletNumber = num THEN "SelfTransfer"
      ELSE IF recipient = 0 THEN "RecipientNotFound"
      ELSE IF wallets[sender].balance < a THEN "InsufficientBalance"
      ELSE "pass"

TransferStart(p, u, num, a) ==
  /\ Accepts(p)
  /\ ops < MaxOps
  /\ ops' = ops + 1
  /\ LET l == [NoLocals EXCEPT !.amount = a,
                               !.sender = WalletOfUser(u),
                               !.recipient = WalletOfNumber(num)]
         check == TransferPreCheck(u, num, a)
     IN  IF check = "pass"
         THEN /\ pc' = [pc EXCEPT ![p] = "t_lockS"]
              /\ loc' = [loc EXCEPT ![p] = l]
              /\ Continue
         ELSE Finish(p, Outcome("transfer", check, l))
  /\ UNCHANGED <<wallets, txns, lockW, lockT, nextRef, credited, credits, raced>>
  /\ UNCHANGED accessVars

\* The wallet a transfer locks first and the one it locks second.
FirstLocked(l) == l.sender
SecondLocked(l) == l.recipient

\* manager.findOne(Wallet, { id: senderWallet.id, lock: pessimistic_write }):
\* waits while another handler holds the row lock, then reads the row.
TransferLockSender(p) ==
  /\ pc[p] = "t_lockS"
  /\ LET w == FirstLocked(loc[p])
     IN  /\ CanLock(lockW, w, p)
         /\ lockW' = [lockW EXCEPT ![w] = p]
         /\ loc' = [loc EXCEPT ![p].senderBal = wallets[loc[p].sender].balance]
  /\ pc' = [pc EXCEPT ![p] = "t_lockR"]
  /\ Continue
  /\ UNCHANGED <<wallets, txns, lockT, nextRef, ops, credited, credits, raced>>
  /\ UNCHANGED accessVars

\* SufficientUnderLock without the re-check.
SufficientUnderLock_NoRecheck(l) == TRUE

\* The balance re-check made on the locked sender row.
SufficientUnderLock(l) == l.senderBal >= l.amount

\* manager.findOne(Wallet, { id: recipientWallet.id, lock: ... }) waits for
\* the row lock; once it has it nothing blocks up to the save of the two
\* balances: the null checks, the balance re-check under lock and the two
\* balance updates, saved inside the open database transaction.  A throw
\* rolls the transaction back and releases the locks.
TransferLockRecipient(p) ==
  /\ pc[p] = "t_lockR"
  /\ CanLock(lockW, SecondLocked(loc[p]), p)
  /\ LET l == [loc[p] EXCEPT
                 !.recipientBal = wallets[loc[p].recipient].balance]
     IN  IF l.sender \notin WalletIds
         THEN /\ Finish(p, Outcome("transfer", "SenderNotFoundDuringLock", l))
              /\ lockW' = ReleaseW(p)
         ELSE IF l.recipient \notin WalletIds
         THEN /\ Finish(p, Outcome("transfer", "RecipientNotFoundDuringLock", l))
              /\ lockW' = ReleaseW(p)
         ELSE IF ~SufficientUnderLock(l)
         THEN /\ Finish(p, Outcome("transfer", "InsufficientBalanceUnderLock",
                                   l))
              /\ lockW' = ReleaseW(p)
         ELSE /\ loc' = [loc EXCEPT ![p] =
                           [l EXCEPT
                              !.newSenderBal = l.senderBal - l.amount,
                              !.newRecipientBal = l.recipientBal + l.amount]]
              /\ lockW' = [lockW EXCEPT ![SecondLocked(l)] = p]
              /\ pc' = [pc EXCEPT ![p] = "t_save"]
              /\ Continue
  /\ UNCHANGED <<wallets, txns, lockT, nextRef, ops, credited, credits, raced>>
  /\ UNCHANGED accessVars

\* TransferRows with the transfer_in row written against the sender.
TransferRows_InOnSender(l, n) ==
  <<[walletId |-> l.sender, type |-> "transfer_out", amount |-> l.amount,
     status |-> "success", reference |-> TransferRef(n, "OUT"),
     metadata |-> {"recipient_wallet_number", "recipient_wallet_id"},
     counterpart |-> l.recipient],
    [walletId |-> l.sender, type |-> "transfer_in", amount |-> l.amount,
     status |-> "success", reference |-> TransferRef(n, "IN"),
     metadata |-> {"sender_wallet_number", "sender_wallet_id"},
     counterpart |-> l.sender]>>

\* The two ledger rows of a transfer whose reference part is n.
TransferRows(l, n) ==
  <<[walletId |-> l.sender, type |-> "transfer_out", amount |-> l.amount,
     status |-> "success", reference |-> TransferRef(n, "OUT"),
     metadata |-> {"recipient_wallet_number", "recipient_wallet_id"},
     counterpart |-> l.recipient],
    [walletId |-> l.recipient, type |-> "transfer_in", amount |-> l.amount,
     status |-> "success", reference |-> TransferRef(n, "IN"),
     metadata |-> {"sender_wallet_number", "sender_wallet_id"},
     counterpart |-> l.sender]>>

\* TransferBalances with the recipient's row left out of the save.
TransferBalances_SenderOnly(l) ==
  [wallets EXCEPT ![l.sender].balance = l.newSenderBal]

\* The wallets table after the commit of a transfer's two balance updates.
TransferBalances(l) ==
  [wallets EXCEPT ![l.sender].balance = l.newSenderBal,
                  ![l.recipient].balance = l.newRecipientBal]

\* TransferRolledBack with the two balance updates kept, as they would be
\* had they been saved outside the database transaction.
TransferRolledBack_KeepsBalances(l) ==
  [wallets EXCEPT ![l.sender].balance = l.newSenderBal,
                  ![l.recipient].balance = l.newRecipientBal]

\* The wallets table after the rollback of a transfer's database
\* transaction: the committed rows, without the two balance updates.
TransferRolledBack(l) == wallets

\* The reference is generated and both ledger rows are saved.  A reference
\* that is already stored violates the unique index: the save throws and
\* the whole database transaction, balance updates included, is rolled
\* back.  Otherwise the transaction commits and the locks are released.
TransferSave(p, n) ==
  /\ pc[p] = "t_save"
  /\ n \in Draws("TRF", nextRef, StoredRefs)
  /\ LET l == loc[p]
         rows == TransferRows(l, n)
     IN  IF RefExists(rows[1].reference) \/ RefExists(rows[2].reference)
         THEN /\ Finish(p, Outcome("transfer", "QueryFailed", l))
              /\ wallets' = TransferRolledBack(l)
              /\ UNCHANGED <<txns, lockT, nextRef, credits>>
         ELSE /\ wallets' = TransferBalances(l)
              /\ txns' = txns \o rows
              /\ lockT' = lockT \o <<0, 0>>
              /\ credits' = credits \o <<0, 0>>
              /\ nextRef' = nextRef + 1
              /\ Finish(p, Outcome("transfer", "success",
                                   [l EXCEPT !.txn = Len(txns) + 1]))
  /\ lockW' = ReleaseW(p)
  /\ UNCHANGED <<ops, credited, raced>>
  /\ UNCHANGED accessVars

\* ------------------------------------------------- lock waits, deadlocks
\* The lock a handler is waiting for: <<table, row id>>, <<"none", 0>> when
\* it is not at a locking read.
WaitsFor(p) ==
  IF pc[p] = "t_lockS" THEN <<"wallet", FirstLocked(loc[p])>>
  ELSE IF pc[p] = "t_lockR" THEN <<"wallet", SecondLocked(loc[p])>>
  ELSE IF pc[p] = "c_lockT" /\ TxnOfRef(loc[p].ref) # 0
       THEN <<"txn", TxnOfRef(loc[p].ref)>>
  ELSE IF pc[p] = "c_lockW" /\ txns[loc[p].txn].walletId \in WalletIds
       THEN <<"wallet", txns[loc[p].txn].walletId>>
  ELSE <<"none", 0>>

\* The handler that holds the lock p waits for, 0 when p is not blocked.
Blocker(p) ==
  LET w == WaitsFor(p)
      holder == IF w[1] = "wallet" THEN lockW[w[2]]
                ELSE IF w[1] = "txn" THEN lockT[w[2]]
                ELSE 0
  IN  IF holder = p THEN 0 ELSE holder

RECURSIVE BlockedBy(_, _, _)
\* q is reached from p in at most k steps along the waits-for edges.
BlockedBy(p, q, k) ==
  /\ k > 0
  /\ Blocker(p) # 0
  /\ \/ Blocker(p) = q
     \/ BlockedBy(Blocker(p), q, k - 1)

\* p waits, directly or through others, for a lock that waits for p.
InLockWaitCycle(p) == BlockedBy(p, p, NumProcs)

\* PostgreSQL's deadlock detector: a handler in a lock-wait cycle gets the
\* "deadlock detected" error on its locking read; dataSource.transaction
\* rolls its transaction back, releasing the locks it held.
DeadlockAbort(p) ==
  /\ InLockWaitCycle(p)
  /\ Finish(p, Outcome(IF pc[p] \in {"t_lockS", "t_lockR"}
                       THEN "transfer" ELSE "credit",
                       "DeadlockDetected", loc[p]))
  /\ lockW' = ReleaseW(p)
  /\ lockT' = ReleaseT(p)
  /\ UNCHANGED <<wallets, txns, nextRef, ops, credited, credits, raced>>
  /\ UNCHANGED accessVars


\* ---------------------------------------------------------------- deposit
\* initializeDeposit(), up to the gateway call: the amount checks, the user
\* and wallet lookups, the reference and the insert of the pending row.
DepositPreCheck(u, a) ==
  IF a <= 0 THEN "AmountNotPositive"
  ELSE IF a < MinAmount THEN "MinimumDeposit"
  ELSE IF u \notin Users THEN "UserNotFound"
  ELSE IF WalletOfUser(u) = 0 THEN "WalletNotFound"
  ELSE "pass"

\* The pending row initializeDeposit creates.
PendingRow(w, a, ref) ==
  [walletId |-> w, type |-> "deposit", amount |-> a, status |-> "pending",
   reference |-> ref, metadata |-> {"email", "userId", "wallet_number"},
   counterpart |-> 0]

\* InitDepositStart with the gateway called before the pending row is
\* inserted.
InitDepositStart_GatewayFirst(p, u, a, n) ==
  /\ Accepts(p)
  /\ ops < MaxOps
  /\ ops' = ops + 1
  /\ n \in Draws("TXN", nextRef, StoredRefs)
  /\ LET check == DepositPreCheck(u, a)
         l == [NoLocals EXCEPT !.user = u,
                               !.amount = a,
                               !.ref = DepositRef(n),
                               !.txn = Len(txns) + 1]
     IN  IF check # "pass"
         THEN /\ Finish(p, Outcome("deposit", check, NoLocals))
              /\ UNCHANGED <<txns, lockT, credits, nextRef>>
         ELSE IF RefExists(DepositRef(n))
         THEN /\ Finish(p, Outcome("deposit", "QueryFailed", NoLocals))
              /\ UNCHANGED <<txns, lockT, credits, nextRef>>
         ELSE /\ UNCHANGED <<txns, lockT, credits>>
              /\ nextRef' = nextRef + 1
              /\ pc' = [pc EXCEPT ![p] = "d_gateway"]
              /\ loc' = [loc EXCEPT ![p] = l]
              /\ Continue
  /\ UNCHANGED <<wallets, lockW, credited, raced>>
  /\ UNCHANGED accessVars

\* initializeDeposit is called: the checks, the reference, the insert of
\* the pending row; the gateway call is made next.
InitDepositStart(p, u, a, n) ==
  /\ Accepts(p)
  /\ ops < MaxOps
  /\ ops' = ops + 1
  /\ n \in Draws("TXN", nextRef, StoredRefs)
  /\ LET check == DepositPreCheck(u, a)
         l == [NoLocals EXCEPT !.user = u,
                               !.amount = a,
                               !.ref = DepositRef(n),
                               !.txn = Len(txns) + 1]
     IN  IF check # "pass"
         THEN /\ Finish(p, Outcome("deposit", check, NoLocals))
              /\ UNCHANGED <<txns, lockT, credits, nextRef>>
         ELSE IF RefExists(DepositRef(n))
         THEN /\ Finish(p, Outcome("deposit", "QueryFailed", NoLocals))
              /\ UNCHANGED <<txns, lockT, credits, nextRef>>
         ELSE /\ txns' = Append(txns, PendingRow(WalletOfUser(u), a,
                                                 DepositRef(n)))
              /\ lockT' = Append(lockT, 0)
              /\ credits' = Append(credits, 0)
              /\ nextRef' = nextRef + 1
              /\ pc' = [pc EXCEPT ![p] = "d_gateway"]
              /\ loc' = [loc EXCEPT ![p] = l]
              /\ Continue
  /\ UNCHANGED <<wallets, lockW, credited, raced>>
  /\ UNCHANGED accessVars

\* paystackService.initializeTransaction returned: the handler returns the
\* reference and the authorization url.
InitDepositGatewayOk(p) ==
  /\ pc[p] = "d_gateway"
  /\ Finish(p, Outcome("deposit", "success", loc[p]))
  /\ UNCHANGED <<wallets, txns, lockW, lockT, nextRef, ops, credited, credits, raced>>
  /\ UNCHANGED accessVars

\* FailedRow with the status left as it was.
FailedRow_KeepsStatus(row) ==
  [row EXCEPT !.metadata = {"email", "userId", "wallet_number", "error"}]

\* The row the catch block saves: the entity held in memory since the
\* insert, with status failed and the error added to its metadata.
FailedRow(row) ==
  [row EXCEPT !.status = "failed",
              !.metadata = {"email", "userId", "wallet_number", "error"}]

\* paystackService.initializeTransaction threw: the catch block saves the
\* transaction as failed, outside any database transaction and without a
\* locking read (the UPDATE itself waits for a row lock held by another
\* handler), then rethrows.
InitDepositGatewayFail(p) ==
  /\ pc[p] = "d_gateway"
  /\ CanLock(lockT, loc[p].txn, p)
  /\ txns' = [txns EXCEPT ![loc[p].txn] = FailedRow(@)]
  /\ Finish(p, Outcome("deposit", "GatewayError", loc[p]))
  /\ UNCHANGED <<wallets, lockW, lockT, nextRef, ops, credited, credits, raced>>
  /\ UNCHANGED accessVars

\* ------------------------------------------------ deposit reconciliation
\* References a webhook may carry: those of stored rows and an unknown one.
WebhookRefs == StoredRefs \cup {DepositRef(nextRef)}

\* CreditCheck without the idempotency check.
CreditCheck_NoIdempotency(row, a) ==
  IF row.type # "deposit" THEN "InvalidType"
  ELSE IF row.amount # a THEN "AmountMismatch"
  ELSE "pass"

\* CreditCheck without the comparison of the amounts.
CreditCheck_NoAmountCheck(row, a) ==
  IF row.status = "success" THEN "already_processed"
  ELSE IF row.type # "deposit" THEN "InvalidType"
  ELSE "pass"

\* The checks made on the transaction row read under its lock.
CreditCheck(row, a) ==
  IF row.status = "success" THEN "already_processed"
  ELSE IF row.type # "deposit" THEN "InvalidType"
  ELSE IF row.amount # a THEN "AmountMismatch"
  ELSE "pass"

\* The locking read of the transaction row by reference has returned, to a
\* handler whose locals are l: the checks on the row.  The early return
\* commits, a throw rolls back; both release the lock.  When the checks
\* pass the status is set to success inside the database transaction and
\* the handler goes on to the wallet.
CreditReadTxn(p, l) ==
  LET t == TxnOfRef(l.ref)
  IN  IF t = 0
      THEN /\ Finish(p, Outcome("credit", "TransactionNotFound", l))
           /\ UNCHANGED lockT
      ELSE LET check == CreditCheck(txns[t], l.amount)
           IN  IF check = "pass"
               THEN /\ lockT' = [lockT EXCEPT ![t] = p]
                    /\ pc' = [pc EXCEPT ![p] = "c_lockW"]
                    /\ loc' = [loc EXCEPT ![p] = [l EXCEPT !.txn = t]]
                    /\ Continue
               ELSE /\ Finish(p, Outcome("credit", check, l))
                    /\ UNCHANGED lockT

\* The row lock the locking read by reference has to wait for.
TxnLockedByOther(p, ref) ==
  TxnOfRef(ref) # 0 /\ ~CanLock(lockT, TxnOfRef(ref), p)

\* creditWalletFromWebhook(reference, amount, data) is called, opens its
\* database transaction and makes the locking read of the transaction row:
\* it waits when another handler holds the row lock.
CreditStart(p, ref, a) ==
  /\ Accepts(p)
  /\ ops < MaxOps
  /\ ops' = ops + 1
  /\ raced' = [raced EXCEPT ![p] = FALSE]
  /\ LET l == [NoLocals EXCEPT !.ref = ref, !.amount = a]
     IN  IF TxnLockedByOther(p, ref)
         THEN /\ pc' = [pc EXCEPT ![p] = "c_lockT"]
              /\ loc' = [loc EXCEPT ![p] = l]
              /\ Continue
              /\ UNCHANGED lockT
         ELSE CreditReadTxn(p, l)
  /\ UNCHANGED <<wallets, txns, lockW, nextRef, credited, credits>>

\* The row lock a waiting handler wanted has been released.
CreditLockTxn(p) ==
  /\ pc[p] = "c_lockT"
  /\ ~TxnLockedByOther(p, loc[p].ref)
  /\ CreditReadTxn(p, loc[p])
  /\ UNCHANGED <<wallets, txns, lockW, nextRef, ops, credited, credits, raced>>
  /\ UNCHANGED accessVars

\* The row a committed reconciliation leaves.
SuccessRow(row) ==
  [row EXCEPT !.status = "success",
              !.metadata = @ \cup {"paystack_webhook", "processed_at"}]

\* The locking read of the wallet row, the credit and the commit of the
\* status change together with the new balance.  A missing wallet throws
\* and rolls the status change back.
CreditLockWallet(p) ==
  /\ pc[p] = "c_lockW"
  /\ LET t == loc[p].txn
         w == txns[t].walletId
     IN  IF w \notin WalletIds
         THEN /\ Finish(p, Outcome("credit", "WalletNotFound", loc[p]))
              /\ UNCHANGED <<wallets, txns, credited, credits, raced>>
         ELSE /\ CanLock(lockW, w, p)
              /\ txns' = [txns EXCEPT ![t] = SuccessRow(@)]
              /\ wallets' = [wallets EXCEPT
                               ![w].balance = @ + loc[p].amount]
              /\ credited' = [credited EXCEPT ![w] = @ + loc[p].amount]
              /\ credits' = [credits EXCEPT ![t] = @ + 1]
              /\ raced' = [q \in Procs |->
                             IF q # p /\ pc[q] \in {"c_lockT", "c_lockW"}
                                /\ loc[q].ref = txns[t].reference
                             THEN TRUE ELSE raced[q]]
              /\ Finish(p, Outcome("credit", "success", loc[p]))
  /\ lockT' = ReleaseT(p)
  /\ UNCHANGED <<lockW, nextRef, ops>>
  /\ UNCHANGED accessVars

\* ------------------------------------------------- webhook entry point
\* The raw request body, in the order its JSON text gives: the event, then
\* data.status, data.reference and data.amount.  <<>> is an absent body
\* and an absent header.
NoRawBody == <<>>
NoSignature == <<>>

\* The body the JSON parser hands to the controller.
ParseBody(rawBody) ==
  [event |-> rawBody[1],
   data |-> [status |-> rawBody[2], reference |-> rawBody[3],
             amount |-> rawBody[4]]]

\* PAYSTACK_SECRET_KEY, and a key that is not it.
SecretKey == "PAYSTACK_SECRET_KEY"
ForgedKey == "not the secret key"

\* crypto.createHmac('sha512', key).update(rawBody).digest('hex'): equal
\* digests only for equal keys and equal bodies.
Hmac(key, rawBody) == <<"hmac-sha512", key, rawBody>>

\* verifyWebhookSignature with the digest compared to nothing.
verifyWebhookSignature_NoCompare(signature, rawBody) ==
  IF signature = NoSignature THEN FALSE
  ELSE IF rawBody = NoRawBody THEN FALSE
  ELSE TRUE

\* PaystackService.verifyWebhookSignature(signature, rawBody).
verifyWebhookSignature(signature, rawBody) ==
  IF signature = NoSignature THEN FALSE
  ELSE IF rawBody = NoRawBody THEN FALSE
  ELSE Hmac(SecretKey, rawBody) = signature

\* WebhookGate without the check of the payment status.
WebhookGate_AnyStatus(signature, rawBody) ==
  IF rawBody = NoRawBody THEN "RawBodyRequired"
  ELSE IF signature = NoSignature THEN "MissingSignature"
  ELSE IF ~verifyWebhookSignature(signature, rawBody) THEN "InvalidSignature"
  ELSE IF ParseBody(rawBody).event # "charge.success" THEN "EventIgnored"
  ELSE "pass"

\* WebhookGate without the filter on the event class.
WebhookGate_AnyEvent(signature, rawBody) ==
  IF rawBody = NoRawBody THEN "RawBodyRequired"
  ELSE IF signature = NoSignature THEN "MissingSignature"
  ELSE IF ~verifyWebhookSignature(signature, rawBody) THEN "InvalidSignature"
  ELSE IF ParseBody(rawBody).data.status # "success" THEN "StatusIgnored"
  ELSE "pass"

\* handlePaystackWebhook up to the call of creditWalletFromWebhook: the raw
\* body, the signature header, the signature, the event class and the
\* payment status.
WebhookGate(signature, rawBody) ==
  IF rawBody = NoRawBody THEN "RawBodyRequired"
  ELSE IF signature = NoSignature THEN "MissingSignature"
  ELSE IF ~verifyWebhookSignature(signature, rawBody) THEN "InvalidSignature"
  ELSE IF ParseBody(rawBody).event # "charge.success" THEN "EventIgnored"
  ELSE IF ParseBody(rawBody).data.status # "success" THEN "StatusIgnored"
  ELSE "pass"

\* Bodies a delivery may carry: a successful charge for any reference and
\* amount, a charge that did not succeed, an event of another class.
RawBodies ==
  {<<"charge.success", "success", ref, a>> :
     ref \in WebhookRefs, a \in AmountInputs}
  \cup {<<"charge.success", "failed", ref, MinAmount>> : ref \in WebhookRefs}
  \cup {<<"transfer.success", "success", ref, MinAmount>> :
          ref \in WebhookRefs}

\* Signature headers a delivery of this body may carry: the gateway's, one
\* made with another key, the gateway's signature of another body, none.
Signatures(rawBody) ==
  {Hmac(SecretKey, rawBody), Hmac(ForgedKey, rawBody),
   Hmac(SecretKey, [rawBody EXCEPT ![1] = "charge.dispute.create"]),
   NoSignature}

\* The deliveries: every body with every signature, and one without body.
Deliveries ==
  UNION {{[signature |-> sig, rawBody |-> raw] : sig \in Signatures(raw)} :
           raw \in RawBodies}
  \cup {[signature |-> Hmac(SecretKey, NoRawBody), rawBody |-> NoRawBody]}

\* handlePaystackWebhook(signature, req, payload): a delivery that passes
\* the gate calls creditWalletFromWebhook(reference, amount, data); any
\* other is answered at once, without a read or a write of the datastore.
HandlePaystackWebhook(p, signature, rawBody) ==
  /\ LET check == WebhookGate(signature, rawBody)
     IN  IF check = "pass"
         THEN CreditStart(p, ParseBody(rawBody).data.reference,
                          ParseBody(rawBody).data.amount)
         ELSE /\ Accepts(p)
              /\ ops < MaxOps
              /\ ops' = ops + 1
              /\ Finish(p, Outcome("webhook", check, NoLocals))
              /\ UNCHANGED <<wallets, txns, lockW, lockT, nextRef, credited,
                             credits, raced>>
  /\ UNCHANGED accessVars

\* ----------------------------------------------------------- createWallet
\* Sequences of MAX_ATTEMPTS draws of Math.random(): d1 drawn k times, then
\* d2 for the rest.
DrawSeqs ==
  {[i \in 1..MAX_ATTEMPTS |-> IF i <= k THEN d1 ELSE d2] :
     d1 \in RandomDigits, d2 \in RandomDigits, k \in {0, 1, MAX_ATTEMPTS}}

\* GenerateFrom with the candidate returned without the lookup.
GenerateFrom_NoExistenceCheck(draws, attempts) ==
  [found |-> TRUE,
   walletNumber |-> FormatWalletNumber(draws[attempts + 1]),
   lookups |-> attempts + 1]

RECURSIVE GenerateFrom(_, _)
\* The loop of generateUniqueWalletNumber from the given number of attempts
\* on: the first candidate that no wallet has, with the number of lookups
\* made, or no number after MAX_ATTEMPTS collisions.
GenerateFrom(draws, attempts) ==
  IF ~(attempts < MAX_ATTEMPTS)
  THEN [found |-> FALSE, walletNumber |-> 0, lookups |-> attempts]
  ELSE IF WalletOfNumber(FormatWalletNumber(draws[attempts + 1])) = 0
  THEN [found |-> TRUE,
        walletNumber |-> FormatWalletNumber(draws[attempts + 1]),
        lookups |-> attempts + 1]
  ELSE GenerateFrom(draws, attempts + 1)

generateUniqueWalletNumber(draws) == GenerateFrom(draws, 0)

\* createWallet(userId) up to the save: the wallet number is generated.
\* Wallets are never deleted, so the lookups of the loop, made one after
\* the other, find what they would find at the time of the last one.
CreateWalletStart(p, u, draws) ==
  /\ Accepts(p)
  /\ ops < MaxOps
  /\ ops' = ops + 1
  /\ LET g == generateUniqueWalletNumber(draws)
     IN  IF g.found
         THEN /\ pc' = [pc EXCEPT ![p] = "w_save"]
              /\ loc' = [loc EXCEPT ![p] =
                           [NoLocals EXCEPT !.user = u,
                                            !.walletNumber = g.walletNumber]]
              /\ Continue
         ELSE Finish(p, Outcome("createWallet", "NumberExhausted", NoLocals))
  /\ UNCHANGED <<wallets, txns, lockW, lockT, nextRef, credited, credits, raced>>
  /\ UNCHANGED accessVars

\* UniqueViolation with the unique index on user_id only.
UniqueViolation_OwnerOnly(user, walletNumber) == WalletOfUser(user) # 0

\* The unique indexes of the wallets table, on user_id and on
\* wallet_number, refuse the insert of this row.
UniqueViolation(user, walletNumber) ==
  WalletOfUser(user) # 0 \/ WalletOfNumber(walletNumber) # 0

\* walletRepository.save(wallet): the insert, refused by the unique indexes
\* on user_id and wallet_number.
CreateWalletSave(p) ==
  /\ pc[p] = "w_save"
  /\ IF UniqueViolation(loc[p].user, loc[p].walletNumber)
     THEN /\ Finish(p, Outcome("createWallet", "QueryFailed", loc[p]))
          /\ UNCHANGED <<wallets, lockW, credited>>
     ELSE /\ wallets' = Append(wallets,
                          [userId |-> loc[p].user,
                           walletNumber |-> loc[p].walletNumber,
                           balance |-> 0])
          /\ lockW' = Append(lockW, 0)
          /\ credited' = Append(credited, 0)
          /\ Finish(p, Outcome("createWallet", "success", loc[p]))
  /\ UNCHANGED <<txns, lockT, nextRef, ops, credits, raced>>
  /\ UNCHANGED accessVars

\* ------------------------------------------------------ read operations
\* An operation that only reads: one request, answered from the committed
\* rows, with no lock taken and nothing written.
ReadOnly(p, outcome) ==
  /\ Accepts(p)
  /\ ops < MaxOps
  /\ ops' = ops + 1
  /\ Finish(p, outcome)
  /\ UNCHANGED <<txns, lockW, lockT, nextRef, credited, credits, raced>>
  /\ UNCHANGED accessVars

\* WalletRead with the balance a transfer in flight has written but not
\* yet committed.
WalletRead_Uncommitted(w) ==
  IF \E q \in Procs : pc[q] = "t_save" /\ loc[q].sender = w
  THEN LET q == CHOOSE q \in Procs : pc[q] = "t_save" /\ loc[q].sender = w
       IN  [wallets[w] EXCEPT !.balance = loc[q].newSenderBal]
  ELSE wallets[w]

\* walletRepository.findOne without a lock: the committed row, whatever a
\* transaction in flight has written (PostgreSQL reads committed rows).
WalletRead(w) == wallets[w]

\* What a read returns: the value when the row was found, nothing with the
\* NotFoundException.  A value is the name of the response it is the data
\* of, followed by the fields of the response.
Returned(found, value) ==
  [NoLocals EXCEPT !.value = IF found THEN value ELSE <<>>]

\* getBalance(userId): the wallet of the user, or NotFoundException.
GetBalance(p, u) ==
  /\ LET w == WalletOfUser(u)
     IN  ReadOnly(p, Outcome("getBalance",
                    IF w = 0 THEN "WalletNotFound" ELSE "success",
                    Returned(w # 0, <<"balance", WalletRead(w).balance,
                                      WalletRead(w).walletNumber>>)))
  /\ wallets' = wallets

\* getWalletInfo(userId): the wallet of the user, or NotFoundException.
GetWalletInfo(p, u) ==
  /\ LET w == WalletOfUser(u)
     IN  ReadOnly(p, Outcome("getWalletInfo",
                    IF w = 0 THEN "WalletNotFound" ELSE "success",
                    Returned(w # 0, <<"wallet", w,
                                      WalletRead(w).walletNumber,
                                      WalletRead(w).balance>>)))
  /\ wallets' = wallets

\* One row of the transaction history as getTransactions returns it.
HistoryRow(t) ==
  [id |-> t, type |-> txns[t].type, amount |-> txns[t].amount,
   status |-> txns[t].status, reference |-> txns[t].reference,
   metadata |-> txns[t].metadata]

RECURSIVE HistoryFrom(_, _)
\* The committed rows of a wallet among the first t, newest first.
HistoryFrom(w, t) ==
  IF t = 0 THEN <<>>
  ELSE (IF txns[t].walletId = w THEN <<HistoryRow(t)>> ELSE <<>>)
         \o HistoryFrom(w, t - 1)

\* getTransactions(userId, page, limit): the wallet of the user, then its
\* transaction rows, newest first (the first page holds them all).  The
\* wallet row read first cannot change its id or disappear, so the two
\* reads are taken at the time of the second.
GetTransactions(p, u) ==
  /\ LET w == WalletOfUser(u)
     IN  ReadOnly(p, Outcome("getTransactions",
                    IF w = 0 THEN "WalletNotFound" ELSE "success",
                    Returned(w # 0, <<"transactions",
                                      HistoryFrom(w, Len(txns))>>)))
  /\ wallets' = wallets

\* WalletsAfterStatusCheck with the wallet credited when the deposit that
\* is asked about is still pending.
WalletsAfterStatusCheck_Credits(ref) ==
  LET t == TxnOfRef(ref)
  IN  IF t # 0 /\ txns[t].status = "pending"
         /\ txns[t].walletId \in WalletIds
      THEN [wallets EXCEPT ![txns[t].walletId].balance = @ + txns[t].amount]
      ELSE wallets

\* The wallets table after getDepositStatus(reference): as it was.
WalletsAfterStatusCheck(ref) == wallets

\* getDepositStatus(reference): the transaction row of that reference, or
\* NotFoundException.
GetDepositStatus(p, ref) ==
  /\ LET t == TxnOfRef(ref)
     IN  ReadOnly(p, Outcome("getDepositStatus",
                    IF t = 0 THEN "TransactionNotFound" ELSE "success",
                    Returned(t # 0, <<"deposit", txns[t].reference,
                                      txns[t].status,
                                      txns[t].amount>>)))
  /\ wallets' = WalletsAfterStatusCheck(ref)

\* ------------------------------------------------------------------- Next
Next ==
  \/ \E p \in Procs, u \in Users, num \in WalletNumbers, a \in RequestAmounts :
       TransferStart(p, u, num, a)
  \/ \E p \in Procs : TransferLockSender(p)
  \/ \E p \in Procs : TransferLockRecipient(p)
  \/ \E p \in Procs, n \in 1..nextRef : TransferSave(p, n)
  \/ \E p \in Procs : DeadlockAbort(p)
  \/ \E p \in Procs, u \in Users, a \in RequestAmounts, n \in 1..nextRef :
       InitDepositStart(p, u, a, n)
  \/ \E p \in Procs : InitDepositGatewayOk(p)
  \/ \E p \in Procs : InitDepositGatewayFail(p)
  \/ \E p \in Procs, d \in Deliveries :
       HandlePaystackWebhook(p, d.signature, d.rawBody)
  \/ \E p \in Procs : CreditLockTxn(p)
  \/ \E p \in Procs : CreditLockWallet(p)
  \/ \E p \in Procs, u \in Users, draws \in DrawSeqs :
       CreateWalletStart(p, u, draws)
  \/ \E p \in Procs : CreateWalletSave(p)
  \/ \E p \in Procs, u \in Users : GetBalance(p, u)
  \/ \E p \in Procs, u \in Users : GetWalletInfo(p, u)
  \/ \E p \in Procs, u \in Users : GetTransactions(p, u)
  \/ \E p \in Procs, ref \in WebhookRefs : GetDepositStatus(p, ref)

Spec == Init /\ [][Next]_vars

\* The scheduling of a handler that is inside a database
\* transaction: the database answers every locking read whose row lock is
\* free and every save and commit, the event loop resumes the handler that
\* awaits the answer, and the deadlock detector ends a lock-wait cycle.
\* Nothing is assumed about new requests or about the payment gateway.
\* (Each of these steps moves the handler that takes it, so a step that
\* changes pc is a step that changes the state.)
Fairness ==
  \A p \in Procs :
    /\ WF_pc(TransferLockSender(p))
    /\ WF_pc(TransferLockRecipient(p))
    /\ WF_pc(\E n \in 1..nextRef : TransferSave(p, n))
    /\ WF_pc(DeadlockAbort(p))
    /\ WF_pc(CreditLockTxn(p))
    /\ WF_pc(CreditLockWallet(p))

\* The wallet module with handlers that go on whenever they can.
SpecFair == Spec /\ Fairness

\* -------------------------------------------------- API keys: operations
ValidPermissions == {"deposit", "transfer", "read"}

\* What the callers of the api-keys endpoints send.
KeyNames == {"ci"}
PermissionInputs == {{"read"}, {"read", "admin"}}
ExpiryInputs == {"1h", "2W"}

KeyIds == DOMAIN apiKeys

\* The keys a caller may name or present: the stored ones and one more.
KeyIdInputs == 1..(Len(apiKeys) + 1)
ApiKeyInputs == {generateApiKey(n) : n \in KeyIdInputs}

\* where: { userId, revoked: false, expiresAt: MoreThan(new Date()) }
ActiveKeys(u) ==
  {k \in KeyIds : /\ apiKeys[k].userId = u
                  /\ ~apiKeys[k].revoked
                  /\ apiKeys[k].expiresAt > now}

countActiveKeys(u) == Cardinality(ActiveKeys(u))

\* apiKeyRepository.findOne({ where: { id, userId } }): 0 when none.
KeyOfUser(id, u) ==
  IF id \in KeyIds /\ apiKeys[id].userId = u THEN id ELSE 0

\* createApiKey up to the insert: the permissions, then the number of
\* active keys of the user.
CreateApiKeyCheck(u, permissions) ==
  IF ~(permissions \subseteq ValidPermissions) THEN "InvalidPermissions"
  ELSE IF countActiveKeys(u) >= MaxActiveKeys THEN "KeyLimit"
  ELSE "pass"

\* createApiKey(userId, name, permissions, expiry) is called.
CreateApiKeyStart(p, u, name, permissions, expiry) ==
  /\ Accepts(p)
  /\ ops < MaxOps
  /\ ops' = ops + 1
  /\ LET check == CreateApiKeyCheck(u, permissions)
     IN  IF check = "pass"
         THEN /\ pc' = [pc EXCEPT ![p] = "k_save"]
              /\ loc' = [loc EXCEPT ![p] =
                           [NoLocals EXCEPT !.op = "createApiKey",
                                            !.user = u,
                                            !.name = name,
                                            !.permissions = permissions,
                                            !.expiry = expiry]]
              /\ Continue
         ELSE Finish(p, Outcome("createApiKey", check, NoLocals))
  /\ UNCHANGED ledgerVars
  /\ UNCHANGED accessVars

\* createApiKey called by rolloverApiKey: the same checks, on the name and
\* the permissions of the expired key.
CreateApiKeyCount(p) ==
  /\ pc[p] = "k_count"
  /\ LET check == CreateApiKeyCheck(loc[p].user, loc[p].permissions)
     IN  IF check = "pass"
         THEN /\ pc' = [pc EXCEPT ![p] = "k_save"]
              /\ loc' = loc
              /\ Continue
         ELSE Finish(p, Outcome(loc[p].op, check, NoLocals))
  /\ UNCHANGED <<ops>>
  /\ UNCHANGED ledgerVars
  /\ UNCHANGED accessVars

\* The rest of createApiKey: the key is generated and hashed, the expiry
\* converted (an unknown format throws here) and the row inserted.  The
\* caller gets the key and its expiry time.
CreateApiKeySave(p) ==
  /\ pc[p] = "k_save"
  /\ LET apiKey == generateApiKey(Len(apiKeys) + 1)
         expiresAt == convertExpiryToDate(loc[p].expiry, now)
     IN  IF expiresAt = 0
         THEN /\ Finish(p, Outcome(loc[p].op, "InvalidExpiry", NoLocals))
              /\ apiKeys' = apiKeys
         ELSE /\ apiKeys' = Append(apiKeys,
                              KeyRow(loc[p].user, loc[p].name,
                                     hashApiKey(apiKey),
                                     loc[p].permissions, expiresAt, FALSE))
              /\ Finish(p, Outcome(loc[p].op, "success",
                                   Returned(TRUE, <<apiKey, expiresAt>>)))
  /\ UNCHANGED <<ops, users, now>>
  /\ UNCHANGED ledgerVars

\* RolloverCheck without the check that the key has expired.
RolloverCheck_NoExpiryCheck(u, id) ==
  IF KeyOfUser(id, u) = 0 THEN "KeyNotFound"
  ELSE "pass"

\* rolloverApiKey up to its own count: the key of the caller is looked up
\* and has to have expired.
RolloverCheck(u, id) ==
  IF KeyOfUser(id, u) = 0 THEN "KeyNotFound"
  ELSE IF apiKeys[id].expiresAt > now THEN "NotExpired"
  ELSE "pass"

\* rolloverApiKey(userId, expiredKeyId, newExpiry) is called.
RolloverStart(p, u, id, expiry) ==
  /\ Accepts(p)
  /\ ops < MaxOps
  /\ ops' = ops + 1
  /\ LET check == RolloverCheck(u, id)
     IN  IF check = "pass"
         THEN /\ pc' = [pc EXCEPT ![p] = "r_count"]
              /\ loc' = [loc EXCEPT ![p] =
                           [NoLocals EXCEPT
                              !.op = "rolloverApiKey",
                              !.user = u,
                              !.keyId = id,
                              !.name = apiKeys[id].name,
                              !.permissions = apiKeys[id].permissions,
                              !.expiry = expiry]]
              /\ Continue
         ELSE Finish(p, Outcome("rolloverApiKey", check, NoLocals))
  /\ UNCHANGED ledgerVars
  /\ UNCHANGED accessVars

\* rolloverApiKey counts the active keys before it calls createApiKey.
RolloverCount(p) ==
  /\ pc[p] = "r_count"
  /\ IF countActiveKeys(loc[p].user) >= MaxActiveKeys
     THEN Finish(p, Outcome("rolloverApiKey", "KeyLimit", NoLocals))
     ELSE /\ pc' = [pc EXCEPT ![p] = "k_count"]
          /\ loc' = loc
          /\ Continue
  /\ UNCHANGED <<ops>>
  /\ UNCHANGED ledgerVars
  /\ UNCHANGED accessVars

\* revokeApiKey(userId, keyId) is called: the key of the caller is looked
\* up.
RevokeStart(p, u, id) ==
  /\ Accepts(p)
  /\ ops < MaxOps
  /\ ops' = ops + 1
  /\ IF KeyOfUser(id, u) = 0
     THEN Finish(p, Outcome("revokeApiKey", "KeyNotFound", NoLocals))
     ELSE /\ pc' = [pc EXCEPT ![p] = "v_save"]
          /\ loc' = [loc EXCEPT ![p] =
                       [NoLocals EXCEPT !.op = "revokeApiKey",
                                        !.user = u, !.keyId = id]]
          /\ Continue
  /\ UNCHANGED ledgerVars
  /\ UNCHANGED accessVars

\* apiKey.revoked = true; apiKeyRepository.save(apiKey)
RevokeSave(p) ==
  /\ pc[p] = "v_save"
  /\ apiKeys' = [apiKeys EXCEPT ![loc[p].keyId].revoked = TRUE]
  /\ Finish(p, Outcome("revokeApiKey", "success",
                       Returned(TRUE, <<loc[p].keyId>>)))
  /\ UNCHANGED <<ops, users, now>>
  /\ UNCHANGED ledgerVars

RECURSIVE KeysFrom(_, _)
\* The keys of a user among the first k, newest first, as listApiKeys
\* selects them.
KeysFrom(u, k) ==
  IF k = 0 THEN <<>>
  ELSE (IF apiKeys[k].userId = u
        THEN <<[id |-> k, name |-> apiKeys[k].name,
                permissions |-> apiKeys[k].permissions,
                expiresAt |-> apiKeys[k].expiresAt,
                revoked |-> apiKeys[k].revoked]>>
        ELSE <<>>) \o KeysFrom(u, k - 1)

\* listApiKeys(userId)
ListApiKeys(p, u) ==
  /\ ReadOnly(p, Outcome("listApiKeys", "success",
                         Returned(TRUE, KeysFrom(u, Len(apiKeys)))))
  /\ wallets' = wallets

\* What validateApiKey returns for a key it does not accept.
NoPrincipal == [userId |-> 0, permissions |-> {}]

\* validateApiKey without the filter on revoked.
validateApiKey_IgnoresRevoked(apiKey) ==
  LET found == {k \in KeyIds : /\ apiKeys[k].keyHash = hashApiKey(apiKey)
                               /\ apiKeys[k].expiresAt > now}
  IN  IF found = {} THEN NoPrincipal
      ELSE LET k == CHOOSE k \in found : TRUE
           IN  [userId |-> apiKeys[k].userId,
                permissions |-> apiKeys[k].permissions]

\* validateApiKey(apiKey): the row with the hash of the key that is not
\* revoked and not expired, or null.
validateApiKey(apiKey) ==
  LET found == {k \in KeyIds : /\ apiKeys[k].keyHash = hashApiKey(apiKey)
                               /\ ~apiKeys[k].revoked
                               /\ apiKeys[k].expiresAt > now}
  IN  IF found = {} THEN NoPrincipal
      ELSE LET k == CHOOSE k \in found : TRUE
           IN  [userId |-> apiKeys[k].userId,
                permissions |-> apiKeys[k].permissions]

\* A call of validateApiKey: it reports the key it was given and the
\* principal it returned.
ValidateApiKey(p, apiKey) ==
  /\ LET principal == validateApiKey(apiKey)
     IN  ReadOnly(p, Outcome("validateApiKey",
                    IF principal = NoPrincipal THEN "null" ELSE "principal",
                    Returned(TRUE, <<apiKey, principal>>)))
  /\ wallets' = wallets

\* Time passes.
Tick ==
  /\ now < MaxTime
  /\ now' = now + 1
  /\ Continue
  /\ UNCHANGED <<pc, loc, ops, users, apiKeys>>
  /\ UNCHANGED ledgerVars

NextKeys ==
  \/ \E p \in Procs, u \in Users, name \in KeyNames,
        permissions \in PermissionInputs, expiry \in ExpiryInputs :
       CreateApiKeyStart(p, u, name, permissions, expiry)
  \/ \E p \in Procs : CreateApiKeyCount(p)
  \/ \E p \in Procs : CreateApiKeySave(p)
  \/ \E p \in Procs, u \in Users, id \in KeyIdInputs,
        expiry \in ExpiryInputs :
       RolloverStart(p, u, id, expiry)
  \/ \E p \in Procs : RolloverCount(p)
  \/ \E p \in Procs, u \in Users, id \in KeyIdInputs : RevokeStart(p, u, id)
  \/ \E p \in Procs : RevokeSave(p)
  \/ \E p \in Procs, u \in Users : ListApiKeys(p, u)
  \/ \E p \in Procs, apiKey \in ApiKeyInputs : ValidateApiKey(p, apiKey)
  \/ Tick

\* The api-keys module alone: its table is touched by no other module.
SpecKeys == Init /\ [][NextKeys]_vars

\* ------------------------------------------------- guards of the wallet API
\* The Authorization header: absent (or not a Bearer token), a token that
\* does not verify, a token that verifies for a user.
JwtInputs ==
  {[kind |-> "none", sub |-> 0], [kind |-> "invalid", sub |-> 0]}
    \cup {[kind |-> "valid", sub |-> u] : u \in Users}

\* The x-api-key header: absent, or a key.
NoApiKey == [prefix |-> "none", random |-> 0]
ApiKeyHeaders == {NoApiKey} \cup ApiKeyInputs

\* The routes of WalletController behind the guards, and the permission
\* each one names in @RequirePermissions.
Routes == {"deposit", "depositStatus", "balance", "info", "transfer",
           "transactions"}

RequiredPermissions(route) ==
  IF route = "deposit" THEN {"deposit"}
  ELSE IF route = "transfer" THEN {"transfer"}
  ELSE {"read"}

\* request.user, before a guard has set it.
NoUser == [userId |-> 0, permissions |-> {}, authType |-> "none"]

\* JwtAuthGuard with JwtStrategy.validate: the token verifies and its user
\* exists; otherwise it throws.
JwtAuthGuard(jwt) == jwt.kind = "valid" /\ jwt.sub \in DOMAIN users

\* ApiKeyGuard.canActivate: request.user of a key validateApiKey accepts.
ApiKeyGuard(apiKey) ==
  LET principal == validateApiKey(apiKey)
  IN  IF apiKey = NoApiKey \/ principal = NoPrincipal
      THEN [outcome |-> "Unauthorized", user |-> NoUser]
      ELSE [outcome |-> "pass",
            user |-> [userId |-> principal.userId,
                      permissions |-> principal.permissions,
                      authType |-> "api_key"]]

\* DualAuthGuard.canActivate: the JWT first, the API key when there is no
\* token or the token failed.
DualAuthGuard(jwt, apiKey) ==
  LET hasJwt == jwt.kind # "none"
      hasApiKey == apiKey # NoApiKey
  IN  IF hasJwt /\ JwtAuthGuard(jwt)
      THEN [outcome |-> "pass",
            user |-> [userId |-> jwt.sub, permissions |-> {},
                      authType |-> "jwt"]]
      ELSE IF hasJwt /\ ~hasApiKey
      THEN [outcome |-> "Unauthorized", user |-> NoUser]
      ELSE IF hasApiKey THEN ApiKeyGuard(apiKey)
      ELSE [outcome |-> "Unauthorized", user |-> NoUser]

\* PermissionsGuard with every API key let through.
PermissionsGuard_KeysPass(required, user) ==
  IF required = {} THEN "pass"
  ELSE IF user.authType \in {"jwt", "api_key"} THEN "pass"
  ELSE "Forbidden"

\* PermissionsGuard.canActivate for the permissions a route requires.
PermissionsGuard(required, user) ==
  IF required = {} THEN "pass"
  ELSE IF user.authType = "jwt" THEN "pass"
  ELSE IF user.authType = "api_key"
  THEN IF \A permission \in required : permission \in user.permissions
       THEN "pass" ELSE "Forbidden"
  ELSE "Forbidden"

\* A request to a guarded route of the wallet API, up to the controller
\* method: it is refused by a guard or reaches the operation.  It reports
\* the permissions the route requires, the token, the key and the
\* authentication type the guards settled on.
WalletRequest(p, jwt, apiKey, route) ==
  /\ Accepts(p)
  /\ ops < MaxOps
  /\ ops' = ops + 1
  /\ LET auth == DualAuthGuard(jwt, apiKey)
         outcome ==
           IF auth.outcome # "pass" THEN "Unauthorized"
           ELSE IF PermissionsGuard(RequiredPermissions(route), auth.user)
                     = "pass"
           THEN "reached"
           ELSE "Forbidden"
     IN  Finish(p, Outcome("walletRequest", outcome,
                   Returned(TRUE, <<RequiredPermissions(route), jwt,
                                    apiKey, auth.user.authType>>)))
  /\ UNCHANGED ledgerVars
  /\ UNCHANGED accessVars

NextAuth ==
  \/ \E p \in Procs, jwt \in JwtInputs, apiKey \in ApiKeyHeaders,
        route \in Routes :
       WalletRequest(p, jwt, apiKey, route)
  \/ \E p \in Procs, u \in Users, id \in KeyIdInputs : RevokeStart(p, u, id)
  \/ \E p \in Procs : RevokeSave(p)
  \/ Tick

\* The guards of the wallet API, with keys being revoked and expiring.
SpecAuth == Init /\ [][NextAuth]_vars

\* ------------------------------------------------------------ googleLogin
\* The Google identities that log in: those of the users at the start and
\* two that have no user yet.  A Google account has one email address.
Identities == 1..(NumUsers + 2)

UserRow(identity) == [googleId |-> identity, email |-> identity]

\* usersService.findByGoogleId(googleId): 0 when there is none.
UserOfGoogleId(identity) ==
  IF \E u \in DOMAIN users : users[u].googleId = identity
  THEN CHOOSE u \in DOMAIN users : users[u].googleId = identity
  ELSE 0

\* googleLogin(googleUser) is called: the user is looked up by Google id.
\* A user that exists gets a token and nothing is created.  The handler
\* reports the identity and the user of the token.
GoogleLoginStart(p, identity) ==
  /\ Accepts(p)
  /\ ops < MaxOps
  /\ ops' = ops + 1
  /\ IF UserOfGoogleId(identity) # 0
     THEN Finish(p, Outcome("googleLogin", "success",
                    Returned(TRUE, <<identity, UserOfGoogleId(identity)>>)))
     ELSE /\ pc' = [pc EXCEPT ![p] = "g_user"]
          /\ loc' = [loc EXCEPT ![p] =
                       [NoLocals EXCEPT !.op = "googleLogin",
                                        !.identity = identity]]
          /\ Continue
  /\ UNCHANGED ledgerVars
  /\ UNCHANGED accessVars

\* usersService.create: the insert of the user, refused by the unique
\* constraints on google_id and email.
GoogleLoginCreateUser(p) ==
  /\ pc[p] = "g_user"
  /\ IF \E u \in DOMAIN users :
          \/ users[u].googleId = UserRow(loc[p].identity).googleId
          \/ users[u].email = UserRow(loc[p].identity).email
     THEN /\ Finish(p, Outcome("googleLogin", "QueryFailed",
                       Returned(TRUE, <<loc[p].identity, 0>>)))
          /\ users' = users
     ELSE /\ users' = Append(users, UserRow(loc[p].identity))
          /\ pc' = [pc EXCEPT ![p] = "g_wallet"]
          /\ loc' = [loc EXCEPT ![p].user = Len(users) + 1]
          /\ Continue
  /\ UNCHANGED <<ops, apiKeys, now>>
  /\ UNCHANGED ledgerVars

\* walletService.createWallet(user.id), called by googleLogin, up to the
\* save: the wallet number is generated.  Its exception ends googleLogin.
GoogleLoginWallet(p, draws) ==
  /\ pc[p] = "g_wallet"
  /\ LET g == generateUniqueWalletNumber(draws)
     IN  IF g.found
         THEN /\ pc' = [pc EXCEPT ![p] = "g_save"]
              /\ loc' = [loc EXCEPT ![p].walletNumber = g.walletNumber]
              /\ Continue
         ELSE Finish(p, Outcome("googleLogin", "NumberExhausted",
                        Returned(TRUE, <<loc[p].identity, loc[p].user>>)))
  /\ UNCHANGED <<ops>>
  /\ UNCHANGED ledgerVars
  /\ UNCHANGED accessVars

\* The save of createWallet called by googleLogin, then the token.
GoogleLoginSave(p) ==
  /\ pc[p] = "g_save"
  /\ IF UniqueViolation(loc[p].user, loc[p].walletNumber)
     THEN /\ Finish(p, Outcome("googleLogin", "QueryFailed",
                       Returned(TRUE, <<loc[p].identity, loc[p].user>>)))
          /\ UNCHANGED <<wallets, lockW, credited>>
     ELSE /\ wallets' = Append(wallets,
                          [userId |-> loc[p].user,
                           walletNumber |-> loc[p].walletNumber,
                           balance |-> 0])
          /\ lockW' = Append(lockW, 0)
          /\ credited' = Append(credited, 0)
          /\ Finish(p, Outcome("googleLogin", "success",
                       Returned(TRUE, <<loc[p].identity, loc[p].user>>)))
  /\ UNCHANGED <<txns, lockT, nextRef, ops, credits, raced>>
  /\ UNCHANGED accessVars

NextLogin ==
  \/ \E p \in Procs, identity \in Identities : GoogleLoginStart(p, identity)
  \/ \E p \in Procs : GoogleLoginCreateUser(p)
  \/ \E p \in Procs, draws \in DrawSeqs : GoogleLoginWallet(p, draws)
  \/ \E p \in Procs : GoogleLoginSave(p)
  \/ \E p \in Procs, u \in Users, draws \in DrawSeqs :
       CreateWalletStart(p, u, draws)
  \/ \E p \in Procs : CreateWalletSave(p)
  \/ \E p \in Procs, u \in DOMAIN users : GetWalletInfo(p, u)

\* Account provisioning: logins, with createWallet and getWalletInfo.
SpecLogin == Init /\ [][NextLogin]_vars

\* ------------------------------------------------------------ type sanity
TypeOK ==
  /\ Len(lockW) = Len(wallets)
  /\ Len(lockT) = Len(txns)
  /\ Len(credited) = Len(wallets)
  /\ Len(credits) = Len(txns)
  /\ \A p \in Procs : pc[p] \in {"idle", "t_lockS", "t_lockR",
                                 "t_save", "d_gateway", "c_lockT", "c_lockW",
                                 "w_save", "k_save", "k_count", "r_count",
                                 "v_save", "g_user", "g_wallet", "g_save"}
  /\ now \in 1..MaxTime

\* ================================================================= claims
\* The step just taken ended an operation of this kind with this outcome.
Reported(op, outcome) == result.op = op /\ result.outcome = outcome

\* Steps of the operations, as seen from a pair of states.
InTransfer(p) == pc[p] \in {"t_lockS", "t_lockR", "t_save"}
TransferCommitted(p) ==
  pc[p] = "t_save" /\ pc'[p] = "idle" /\ result'.outcome = "success"
CreditCommitted(p) ==
  pc[p] = "c_lockW" /\ pc'[p] = "idle" /\ result'.outcome = "success"

\* C1: in every committed state, whatever the interleaving of wallet
\* creations, transfers, deposit initiations and reconciliations, every
\* wallet's balance is at least zero.
C1_BalanceNonNegative == \A w \in WalletIds : wallets[w].balance >= 0

\* A transfer has committed and emptied a wallet.
C1_Witness ==
  /\ Reported("transfer", "success")
  /\ \E w \in WalletIds : wallets[w].balance = 0 /\ credited[w] > 0

\* C2: a committed transfer of amount a takes exactly a from the sender and
\* gives exactly a to the recipient; the two balances after the commit sum
\* to what they summed to when the transfer read them under its locks, and
\* no step of a transfer changes the sum of all balances.
C2_Conservation ==
  [][\A p \in Procs :
       /\ TransferCommitted(p) =>
            LET l == loc[p]
            IN  /\ wallets'[l.sender].balance
                     = wallets[l.sender].balance - l.amount
                /\ wallets'[l.recipient].balance
                     = wallets[l.recipient].balance + l.amount
                /\ wallets'[l.sender].balance + wallets'[l.recipient].balance
                     = l.senderBal + l.recipientBal
       /\ InTransfer(p) /\ pc'[p] # pc[p] =>
            TotalBalance(wallets') = TotalBalance(wallets)]_vars

\* A transfer has committed while a reconciliation that has locked its
\* deposit is about to credit a wallet.
C2_Witness ==
  /\ Reported("transfer", "success")
  /\ \E q \in Procs : pc[q] = "c_lockW"

C4_ConcurrentCreditOnce ==
  \A p \in Procs :
    (pc[p] \in {"c_lockT", "c_lockW"} /\ raced[p]) =>
      /\ pc[p] = "c_lockT"
      /\ credits[TxnOfRef(loc[p].ref)] = 1

\* C5: two transfers between the same two wallets in opposite directions
\* never reach a state in which each waits for a wallet lock that the
\* other holds.
C5_NoOppositeTransferDeadlock ==
  \A p \in Procs, q \in Procs :
    ( /\ p # q
      /\ InTransfer(p) /\ InTransfer(q)
      /\ loc[p].sender = loc[q].recipient
      /\ loc[p].recipient = loc[q].sender )
    => ~(Blocker(p) = q /\ Blocker(q) = p)

\* C6: a transfer that holds one wallet lock and has still to take the
\* other holds the lock of the wallet with the smaller id, whichever of
\* the two is the sender.
C6_LocksInIdOrder ==
  \A p \in Procs :
    pc[p] = "t_lockR" =>
      \A w \in WalletIds :
        lockW[w] = p => /\ w <= loc[p].sender
                        /\ w <= loc[p].recipient

\* Net amount the transfer rows of the ledger give to wallet w.
RECURSIVE NetTransfers(_, _)
NetTransfers(w, n) ==
  IF n = 0 THEN 0
  ELSE NetTransfers(w, n - 1)
       + (IF txns[n].walletId = w /\ txns[n].type = "transfer_in"
          THEN txns[n].amount ELSE 0)
       - (IF txns[n].walletId = w /\ txns[n].type = "transfer_out"
          THEN txns[n].amount ELSE 0)

\* Row t is the transfer_out row of a transfer and row t + 1 its
\* transfer_in row.
TransferPair(t) ==
  /\ t + 1 \in TxnIds
  /\ txns[t].type = "transfer_out"
  /\ txns[t + 1].type = "transfer_in"
  /\ txns[t + 1].amount = txns[t].amount
  /\ txns[t + 1].walletId = txns[t].counterpart
  /\ txns[t + 1].counterpart = txns[t].walletId

\* C7: a transfer is all-or-nothing.  In every committed state the transfer
\* rows come in pairs, one transfer_out and one transfer_in of the same
\* amount, and every balance is what the webhooks credited plus what the
\* transfer rows give and take: no debit, credit or row of a transfer is
\* there without the other three, whatever the point of failure.
C7_TransferAllOrNothing ==
  /\ \A t \in TxnIds :
       /\ txns[t].type = "transfer_out" => TransferPair(t)
       /\ txns[t].type = "transfer_in" => t > 1 /\ TransferPair(t - 1)
  /\ \A w \in WalletIds :
       wallets[w].balance = credited[w] + NetTransfers(w, Len(txns))

\* The save of the ledger rows of a transfer has failed after its two
\* balance updates were made, and an earlier transfer is in the ledger.
C7_Witness ==
  /\ Reported("transfer", "QueryFailed")
  /\ \E t \in TxnIds : txns[t].type = "transfer_out"

\* Outcomes that report an insufficient balance.
InsufficientFunds == {"InsufficientBalance", "InsufficientBalanceUnderLock"}

\* C8: a transfer whose amount exceeds the sender's balance does not get
\* past the check that finds it, before or under the lock; it reports an
\* insufficient balance, and the step that reports it changes no balance
\* and adds no transaction row; no transfer commits for more than the
\* sender's committed balance.
C8_InsufficientFunds ==
  [][\A p \in Procs :
       /\ (pc[p] = "idle" /\ pc'[p] = "t_lockS") =>
            wallets[loc'[p].sender].balance >= loc'[p].amount
       /\ (pc[p] = "t_lockR" /\ pc'[p] = "t_save") =>
            wallets[loc[p].sender].balance >= loc[p].amount
       /\ ( /\ pc[p] = "t_lockR" /\ pc'[p] = "idle"
            /\ CanLock(lockW, loc[p].recipient, p)
            /\ wallets[loc[p].sender].balance < loc[p].amount ) =>
            result'.outcome = "InsufficientBalanceUnderLock"
       /\ TransferCommitted(p) =>
            wallets[loc[p].sender].balance >= loc[p].amount
       /\ (result'.op = "transfer" /\ result'.outcome \in InsufficientFunds)
            => /\ wallets' = wallets
               /\ txns' = txns
               /\ \A w \in WalletIds : lockW'[w] # result'.proc]_vars

\* The re-check under the lock has refused a transfer that had passed the
\* unlocked check.
C8_Witness == Reported("transfer", "InsufficientBalanceUnderLock")

\* C9: a transfer to the caller's own wallet number is rejected: no
\* transfer in progress and no transfer row has the same wallet as sender
\* and recipient, and the step that rejects a transfer changes no balance
\* and adds no transaction row.
C9_NoSelfTransfer ==
  [][/\ \A p \in Procs :
          InTransfer(p)' => loc'[p].sender # loc'[p].recipient
     /\ \A t \in DOMAIN txns' :
          txns'[t].type \in {"transfer_in", "transfer_out"}
            => txns'[t].counterpart # txns'[t].walletId
     /\ (result'.op = "transfer" /\ result'.outcome = "SelfTransfer")
          => wallets' = wallets /\ txns' = txns]_vars

\* A transfer to the caller's own wallet number has just been rejected.
C9_Witness == Reported("transfer", "SelfTransfer")

\* C10: a committed transfer of amount a from wallet S to wallet R adds
\* exactly two transaction rows and changes no other: a transfer_out row
\* owned by S and a transfer_in row owned by R, both of amount a and status
\* success, with different references that share their prefix.
C10_TwoLedgerRows ==
  [][\A p \in Procs :
       TransferCommitted(p) =>
         LET l == loc[p]
             n == Len(txns)
         IN  /\ Len(txns') = n + 2
             /\ SubSeq(txns', 1, n) = txns
             /\ txns'[n + 1].type = "transfer_out"
             /\ txns'[n + 1].walletId = l.sender
             /\ txns'[n + 2].type = "transfer_in"
             /\ txns'[n + 2].walletId = l.recipient
             /\ \A t \in {n + 1, n + 2} :
                  txns'[t].amount = l.amount /\ txns'[t].status = "success"
             /\ txns'[n + 1].reference # txns'[n + 2].reference
             /\ txns'[n + 1].reference.kind = txns'[n + 2].reference.kind
             /\ txns'[n + 1].reference.n = txns'[n + 2].reference.n
             /\ \A t \in 1..n : txns[t].reference # txns'[n + 1].reference
                                /\ txns[t].reference # txns'[n + 2].reference]_vars

\* A transfer from wallet 1 to wallet 2 has just committed its two rows.
C10_Witness ==
  /\ Reported("transfer", "success")
  /\ Len(txns) >= 5
  /\ txns[Len(txns)].type = "transfer_in"
  /\ txns[Len(txns)].walletId = 2
  /\ txns[Len(txns) - 1].walletId = 1

\* The delivery carries the gateway's signature of its raw body.
GatewaySigned(d) ==
  d.rawBody # NoRawBody /\ d.signature = Hmac(SecretKey, d.rawBody)

\* C11: a webhook delivery whose signature is not the HMAC of its raw body
\* under the secret key is answered Unauthorized before any access to the
\* ledger: the handler is done in that step, no transaction row and no
\* balance changes and no row lock is taken, whatever event, reference and
\* amount the body carries.
C11_InvalidSignatureRejected ==
  [][\A p \in {q \in Procs : Accepts(q) /\ ops' # ops} :
     \A d \in {x \in Deliveries : x.rawBody # NoRawBody /\ ~GatewaySigned(x)} :
       HandlePaystackWebhook(p, d.signature, d.rawBody) =>
         /\ result'.op = "webhook"
         /\ result'.response = "Unauthorized"
         /\ pc'[p] = "idle"
         /\ txns' = txns
         /\ wallets' = wallets
         /\ lockT' = lockT
         /\ lockW' = lockW]_vars

\* A delivery with an invalid signature has just been rejected while the
\* deposit pending at the start is still pending.
C11_Witness ==
  /\ Reported("webhook", "InvalidSignature")
  /\ result.response = "Unauthorized"
  /\ txns[3].status = "pending"
  /\ wallets[2].balance = MinAmount

\* C18: a webhook delivery that carries the gateway's signature and an
\* event class other than charge.success is acknowledged with success in
\* the step that takes it, and changes no transaction row and no balance;
\* the handler starts no reconciliation.
C18_OtherEventsIgnored ==
  [][\A p \in {q \in Procs : Accepts(q) /\ ops' # ops} :
     \A d \in {x \in Deliveries :
                 GatewaySigned(x) /\ x.rawBody[1] # "charge.success"} :
       HandlePaystackWebhook(p, d.signature, d.rawBody) =>
         /\ result'.op = "webhook"
         /\ result'.response = "ok"
         /\ pc'[p] = "idle"
         /\ txns' = txns
         /\ wallets' = wallets
         /\ lockT' = lockT
         /\ lockW' = lockW]_vars

\* A signed delivery of another event class has just been acknowledged
\* while the deposit pending at the start is still pending.
C18_Witness ==
  /\ Reported("webhook", "EventIgnored")
  /\ result.response = "ok"
  /\ txns[3].status = "pending"
  /\ wallets[2].balance = MinAmount

\* Outcomes of creditWalletFromWebhook that are exceptions.
CreditErrors ==
  {"TransactionNotFound", "InvalidType", "AmountMismatch", "WalletNotFound",
   "DeadlockDetected"}

\* C19: when creditWalletFromWebhook, called for a signed charge.success
\* delivery, ends in an exception (unknown reference, amount mismatch,
\* transaction of another type, wallet missing), the webhook entry point
\* still answers with the success acknowledgement, and the step in which
\* the reconciliation fails changes no transaction row and no balance.
C19_AckOnFailedReconciliation ==
  [][(result'.op = "credit" /\ result'.outcome \in CreditErrors) =>
       /\ result'.response = "ok"
       /\ txns' = txns
       /\ wallets' = wallets
       /\ credits' = credits]_vars

\* A reconciliation has just failed on the amount of the deposit pending
\* at the start, and the delivery was acknowledged.
C19_Witness ==
  /\ Reported("credit", "AmountMismatch")
  /\ result.response = "ok"
  /\ txns[3].status = "pending"

\* C12: a reconciliation that reads, under the row lock, a deposit whose
\* status is neither pending nor success ends in an error, also when the
\* amount matches: it does not go on to the wallet, the transaction keeps
\* its status and is not credited.
C12_FailedDepositNotReconciled ==
  [][/\ \A p \in Procs :
          (pc'[p] = "c_lockW" /\ pc[p] # "c_lockW") =>
            txns[loc'[p].txn].status = "pending"
     /\ \A t \in TxnIds :
          txns[t].status = "failed" =>
            /\ txns'[t].status = "failed"
            /\ credits'[t] = credits[t]]_vars

\* The transaction types a transfer writes.
TransferTypes == {"transfer_in", "transfer_out"}

\* C13: the status of a transaction changes only from pending, to success
\* or to failed; a row that is success or failed keeps its status in every
\* step, and a transfer row is never changed.
C13_StatusMonotonic ==
  [][\A t \in TxnIds :
       /\ txns'[t].status # txns[t].status =>
            /\ txns[t].status = "pending"
            /\ txns'[t].status \in {"success", "failed"}
       /\ txns[t].type \in TransferTypes => txns'[t] = txns[t]]_vars

\* C14: in every committed state a deposit is success exactly when its
\* wallet was credited for it, once, and what the webhooks credited to a
\* wallet is the sum of the amounts of its deposits that are success.
C14_ReconciliationAtomic ==
  /\ \A t \in TxnIds :
       txns[t].type = "deposit" =>
         /\ credits[t] <= 1
         /\ txns[t].status = "success" <=> credits[t] = 1
  /\ \A w \in WalletIds :
       credited[w] =
         SumSeq([t \in TxnIds |->
                   IF /\ txns[t].walletId = w
                      /\ txns[t].type = "deposit"
                      /\ txns[t].status = "success"
                   THEN txns[t].amount ELSE 0], Len(txns))

\* Signed deliveries of a successful charge: those that reach
\* creditWalletFromWebhook.
ChargeDeliveries ==
  {d \in Deliveries : /\ GatewaySigned(d)
                      /\ d.rawBody[1] = "charge.success"
                      /\ d.rawBody[2] = "success"}

\* The reference of the body names no transaction, or a pending deposit
\* recorded with another amount than the body's.
Unmatched(rawBody) ==
  LET t == TxnOfRef(rawBody[3])
  IN  \/ t = 0
      \/ /\ txns[t].type = "deposit"
         /\ txns[t].status = "pending"
         /\ txns[t].amount # rawBody[4]

\* The reference of the body names a pending deposit of the body's amount.
Matched(rawBody) ==
  LET t == TxnOfRef(rawBody[3])
  IN  /\ t # 0
      /\ txns[t].type = "deposit"
      /\ txns[t].status = "pending"
      /\ txns[t].amount = rawBody[4]

\* C15: a reconciliation for a reference without transaction, or for a
\* pending deposit recorded with another amount, ends in an error in the
\* step that reads the row and changes nothing: the row stays pending, no
\* balance changes, no lock stays held.  A reconciliation of a pending
\* deposit with its recorded amount goes on to the wallet whatever was
\* refused before, and its commit credits the deposit for the first time.
C15_UnmatchedRejected ==
  [][/\ \A p \in {q \in Procs : Accepts(q) /\ ops' # ops} :
        \A d \in {x \in ChargeDeliveries :
                    ~TxnLockedByOther(p, x.rawBody[3])} :
          HandlePaystackWebhook(p, d.signature, d.rawBody) =>
            /\ Unmatched(d.rawBody) =>
                 /\ result'.op = "credit"
                 /\ result'.outcome \in {"TransactionNotFound",
                                         "AmountMismatch"}
                 /\ pc'[p] = "idle"
            /\ Matched(d.rawBody) => pc'[p] = "c_lockW"
     /\ \A p \in Procs :
          CreditLockTxn(p) =>
            /\ Unmatched(<<"", "", loc[p].ref, loc[p].amount>>) =>
                 /\ result'.op = "credit"
                 /\ result'.outcome \in {"TransactionNotFound",
                                         "AmountMismatch"}
            /\ Matched(<<"", "", loc[p].ref, loc[p].amount>>) =>
                 pc'[p] = "c_lockW"
     /\ (result'.op = "credit"
         /\ result'.outcome \in {"TransactionNotFound", "AmountMismatch"}) =>
          /\ txns' = txns
          /\ wallets' = wallets
          /\ credits' = credits
          /\ \A t \in TxnIds : lockT'[t] # result'.proc
     /\ \A p \in Procs :
          (CreditCommitted(p) /\ txns[loc[p].txn].status = "pending") =>
            /\ credits[loc[p].txn] = 0
            /\ credits'[loc[p].txn] = 1
            /\ wallets'[txns[loc[p].txn].walletId].balance
                 = wallets[txns[loc[p].txn].walletId].balance
                   + txns[loc[p].txn].amount]_vars

\* A reconciliation of the deposit pending at the start has just been
\* refused for its amount; the deposit is pending and uncredited.
C15_Witness ==
  /\ Reported("credit", "AmountMismatch")
  /\ txns[3].status = "pending"
  /\ credits[3] = 0
  /\ credited[2] = MinAmount
  /\ lockT[3] = 0

\* C16: when the gateway call of initializeDeposit fails, the handler ends
\* with the gateway's error and the row it created is failed, with the
\* error in its metadata; an initializeDeposit that ends in any error
\* either created no row or leaves its row failed, never pending.
C16_FailedInitiationMarked ==
  [][\A p \in Procs :
       (result'.op = "deposit" /\ result'.proc = p
        /\ result'.outcome # "success") =>
         \/ /\ pc[p] = "idle"
            /\ txns' = txns
         \/ /\ pc[p] = "d_gateway"
            /\ result'.outcome = "GatewayError"
            /\ txns'[loc[p].txn].status = "failed"
            /\ "error" \in txns'[loc[p].txn].metadata
            /\ txns'[loc[p].txn].reference = loc[p].ref]_vars

\* The gateway call of a deposit has just failed and its row is failed.
C16_Witness ==
  /\ Reported("deposit", "GatewayError")
  /\ Len(txns) = 4
  /\ txns[4].status = "failed"
  /\ credits[4] = 0

\* Operations that only read, and the initiation of a deposit.
NonCrediting ==
  {"deposit", "getBalance", "getWalletInfo", "getTransactions",
   "getDepositStatus"}

\* C17: a step that increases a wallet's balance is the commit of a
\* reconciliation of a deposit of that wallet, which adds that deposit's
\* amount, or the commit of a transfer to that wallet, which adds the
\* transfer's amount; a new wallet starts at zero.  No step of
\* initializeDeposit, getDepositStatus, getBalance, getWalletInfo or
\* getTransactions changes a balance.
C17_OnlyCreditsIncrease ==
  [][/\ \A w \in WalletIds :
          wallets'[w].balance > wallets[w].balance =>
            \/ \E p \in Procs :
                 /\ CreditCommitted(p)
                 /\ txns[loc[p].txn].type = "deposit"
                 /\ txns[loc[p].txn].walletId = w
                 /\ wallets'[w].balance
                      = wallets[w].balance + txns[loc[p].txn].amount
            \/ \E p \in Procs :
                 /\ TransferCommitted(p)
                 /\ loc[p].recipient = w
                 /\ wallets'[w].balance = wallets[w].balance + loc[p].amount
     /\ \A w \in DOMAIN wallets' \ WalletIds : wallets'[w].balance = 0
     /\ ( \/ result'.op \in NonCrediting
          \/ \E p \in Procs : pc[p] # pc'[p]
                              /\ "d_gateway" \in {pc[p], pc'[p]} ) =>
          wallets' = wallets]_vars

\* The status of the deposit pending at the start has just been asked for:
\* it is still pending and its wallet has what it had.
C17_Witness ==
  /\ Reported("getDepositStatus", "success")
  /\ txns[3].status = "pending"
  /\ wallets[2].balance = MinAmount
  /\ credited[2] = MinAmount

\* Some wallet has the number made of these random digits.
Taken(randomDigits) ==
  \E w \in WalletIds : wallets[w].walletNumber = FormatWalletNumber(randomDigits)

\* C20: the issuance of a wallet number makes at most 10 existence checks.
\* It returns the first candidate that the check found free, after only
\* taken ones; when all 10 candidates are taken it ends with an error in
\* that step, and createWallet creates no wallet.
C20_BoundedIssuance ==
  [][\A p \in {q \in Procs : Accepts(q) /\ ops' # ops} :
     \A u \in Users, draws \in DrawSeqs :
       CreateWalletStart(p, u, draws) =>
         LET g == generateUniqueWalletNumber(draws)
         IN  /\ g.lookups \in 1..10
             /\ \A i \in 1..(g.lookups - 1) : Taken(draws[i])
             /\ g.found =>
                  /\ ~Taken(draws[g.lookups])
                  /\ g.walletNumber = FormatWalletNumber(draws[g.lookups])
                  /\ pc'[p] = "w_save"
                  /\ loc'[p].walletNumber = g.walletNumber
             /\ ~g.found =>
                  /\ g.lookups = 10
                  /\ Taken(draws[10])
                  /\ Reported("createWallet", "NumberExhausted")'
                  /\ pc'[p] = "idle"
             /\ wallets' = wallets]_vars

\* Ten candidates in a row were taken: the issuance has just given up, and
\* there are the wallets there were.
C20_Witness ==
  /\ Reported("createWallet", "NumberExhausted")
  /\ Len(wallets) = 2

\* Users who own a wallet.
Owners == {u \in Users : WalletOfUser(u) # 0}

\* C21: there is at most one wallet per owner in every reachable state;
\* createWallet for an owner who already has a wallet fails with
\* AlreadyExists and creates nothing; of two concurrent createWallet calls
\* for the same owner at most one succeeds.  As a property of every step:
\* the wallets after it have distinct owners, a createWallet call that is
\* accepted for an owner who has a wallet ends there and then with
\* AlreadyExists, and no createWallet call ends in success for an owner
\* who had a wallet.
C21_OneWalletPerOwner ==
  [][/\ \A w1, w2 \in 1..Len(wallets') :
          wallets'[w1].userId = wallets'[w2].userId => w1 = w2
     /\ \A p \in {q \in Procs : Accepts(q) /\ ops' # ops} :
          \A u \in Owners :
            \A draws \in DrawSeqs :
              CreateWalletStart(p, u, draws)
                => /\ result'.op = "createWallet"
                   /\ result'.outcome = "AlreadyExists"
                   /\ wallets' = wallets
     /\ \A p \in Procs :
          pc[p] = "w_save" /\ loc[p].user \in Owners /\ result'.proc = p
            => result'.outcome # "success" /\ wallets' = wallets]_vars

\* The handler whose step this is ends its unit-of-work with it, and has
\* the exclusive lock on the row: it held it since its locking read, or
\* its locking read of the free row is part of the step.
WritesUnderLock(lock, row) ==
  \E p \in Procs :
    /\ pc[p] # "idle"
    /\ pc'[p] = "idle"
    /\ \/ lock[row] = p
       \/ lock[row] = 0 /\ pc[p] = "c_lockW"

\* C24: every write to an existing wallet's balance or to an existing
\* transaction's status is made by a unit-of-work that holds the exclusive
\* lock on that row from before it read the row until commit; no operation
\* writes back a row that it read without the lock.
C24_WritesUnderLock ==
  [][/\ \A w \in 1..Len(wallets) :
          wallets'[w].balance # wallets[w].balance
            => WritesUnderLock(lockW, w)
     /\ \A t \in 1..Len(txns) :
          txns'[t].status # txns[t].status
            => WritesUnderLock(lockT, t)]_vars

\* C26: transfer and initiateDeposit reject every amount below the minimum
\* of 100 minor units, zero and negative amounts included, without
\* creating a transaction row or changing a balance, so every transaction
\* row ever stored has a positive amount of at least 100.
C26_MinimumAmount ==
  [][/\ \A t \in 1..Len(txns) : txns[t].amount >= MinAmount
     /\ \A t \in 1..Len(txns') : txns'[t].amount >= MinAmount
     /\ \A p \in {q \in Procs : /\ Accepts(q)
                                /\ ops' # ops
                                /\ \/ pc'[q] \in {"t_lockS", "d_gateway"}
                                   \/ result'.op \in {"transfer", "deposit"}} :
          \A u \in Users :
            \A a \in {b \in RequestAmounts : b < MinAmount} :
              /\ \A num \in WalletNumbers :
                   TransferStart(p, u, num, a)
                     => /\ pc'[p] = "idle"
                        /\ result'.op = "transfer"
                        /\ result'.outcome = "MinimumTransfer"
                        /\ txns' = txns
                        /\ wallets' = wallets
              /\ \A n \in 1..nextRef :
                   InitDepositStart(p, u, a, n)
                     => /\ pc'[p] = "idle"
                        /\ result'.op = "deposit"
                        /\ result'.outcome
                             \in {"AmountNotPositive", "MinimumDeposit"}
                        /\ txns' = txns
                        /\ wallets' = wallets]_vars

\* A transfer below the minimum was refused as the second operation, and
\* no row has been added since the start.
C26_Witness ==
  /\ Reported("transfer", "MinimumTransfer")
  /\ ops = 2
  /\ Len(txns) = 3
  /\ \A t \in 1..Len(txns) : txns[t].amount >= MinAmount

ReadOps == {"getBalance", "getWalletInfo", "getTransactions",
            "getDepositStatus"}

\* The balance is not one that a transfer in flight has written to the
\* wallet and not yet committed.
NotUncommitted(w, balance) ==
  \A q \in Procs :
    pc[q] = "t_save"
      => /\ loc[q].sender = w => balance # loc[q].newSenderBal
         /\ loc[q].recipient = w => balance # loc[q].newRecipientBal

\* C25: a read-only operation (getBalance, getWalletInfo, getTransactions,
\* getDepositStatus) that runs concurrently with a transfer or a
\* reconciliation takes no lock, changes no state, and returns for each
\* row its committed value (the one before the unit-of-work or the one
\* after its commit), never a value written by a unit-of-work that has not
\* committed and may still roll back.
C25_ReadsSeeCommitted ==
  [][result'.op \in ReadOps =>
       /\ UNCHANGED <<wallets, txns, lockW, lockT, nextRef, credited,
                      credits, pc>>
       /\ \A p \in {q \in Procs : Accepts(q)} :
            /\ \A u \in {v \in Users : WalletOfUser(v) # 0} :
                 LET w == WalletOfUser(u)
                     mine == {t \in TxnIds : txns[t].walletId = w}
                 IN  /\ result'.op = "getBalance" /\ GetBalance(p, u)
                          => /\ result'.value = <<"balance",
                                                  wallets[w].balance,
                                                  wallets[w].walletNumber>>
                             /\ NotUncommitted(w, result'.value[2])
                     /\ result'.op = "getWalletInfo" /\ GetWalletInfo(p, u)
                          => /\ result'.value = <<"wallet", w,
                                                  wallets[w].walletNumber,
                                                  wallets[w].balance>>
                             /\ NotUncommitted(w, result'.value[4])
                     /\ result'.op = "getTransactions"
                          /\ GetTransactions(p, u)
                          => /\ result'.value[1] = "transactions"
                             /\ Len(result'.value[2]) = Cardinality(mine)
                             /\ \A t \in mine :
                                  \E i \in 1..Len(result'.value[2]) :
                                    /\ result'.value[2][i].id = t
                                    /\ result'.value[2][i].status
                                         = txns[t].status
                                    /\ result'.value[2][i].amount
                                         = txns[t].amount
                                    /\ result'.value[2][i].reference
                                         = txns[t].reference
            /\ \A ref \in {r \in WebhookRefs : TxnOfRef(r) # 0} :
                 result'.op = "getDepositStatus" /\ GetDepositStatus(p, ref)
                   => result'.value = <<"deposit", ref,
                                        txns[TxnOfRef(ref)].status,
                                        txns[TxnOfRef(ref)].amount>>]_vars

\* getBalance has just answered with the committed balance of a wallet
\* while a transfer that debits this wallet holds its lock and has written
\* its new balance without having committed.
C25_Witness ==
  /\ Reported("getBalance", "success")
  /\ \E w \in WalletIds, q \in Procs :
       /\ result.value = <<"balance", wallets[w].balance,
                            wallets[w].walletNumber>>
       /\ pc[q] = "t_save"
       /\ loc[q].sender = w
       /\ lockW[w] = q
       /\ loc[q].newSenderBal # wallets[w].balance

\* A step of the unit-of-work of handler p at a locking read: the lock is
\* granted, or the read fails (with the deadlock error, the only failure
\* of a waiting read the code and its datastore configuration produce).
LockStep(p) ==
  \/ TransferLockSender(p)
  \/ TransferLockRecipient(p)
  \/ CreditLockTxn(p)
  \/ CreditLockWallet(p)
  \/ DeadlockAbort(p)

C27_AtMostFiveActiveKeys ==
  \A u \in Users : countActiveKeys(u) <= MaxActiveKeys

\* The rows that hold the hash of a key.
StoredAs(apiKey) ==
  {k \in KeyIds : apiKeys[k].keyHash = hashApiKey(apiKey)}

\* C28: validateApiKey returns a principal only for a key that is stored,
\* not revoked and not expired; once revokeApiKey for a key has completed,
\* every later validateApiKey of that key returns null, and a key whose
\* expiry time has passed never validates again, whatever operations
\* follow (a rollover of it included).  For every step: a call of
\* validateApiKey returns the principal of a stored row that is neither
\* revoked nor expired and null when there is none; a revoked row stays
\* revoked, no row changes its hash, owner or expiry time, the clock does
\* not go back, and no new row has the hash of an older one.
C28_ValidateOnlyActiveKeys ==
  [][/\ result'.op = "validateApiKey"
          => LET apiKey == result'.value[1]
                 principal == result'.value[2]
                 usable == {k \in StoredAs(apiKey) :
                              ~apiKeys[k].revoked
                                /\ apiKeys[k].expiresAt > now}
             IN  /\ principal # NoPrincipal <=> usable # {}
                 /\ principal # NoPrincipal
                      => \E k \in usable :
                           /\ principal.userId = apiKeys[k].userId
                           /\ principal.permissions = apiKeys[k].permissions
                 /\ result'.outcome = "null" <=> principal = NoPrincipal
     /\ \A k \in KeyIds :
          /\ k \in DOMAIN apiKeys'
          /\ apiKeys[k].revoked => apiKeys'[k].revoked
          /\ apiKeys'[k].keyHash = apiKeys[k].keyHash
          /\ apiKeys'[k].userId = apiKeys[k].userId
          /\ apiKeys'[k].expiresAt = apiKeys[k].expiresAt
     /\ now' >= now
     /\ \A k \in DOMAIN apiKeys' \ KeyIds :
          \A j \in KeyIds : apiKeys'[k].keyHash # apiKeys[j].keyHash]_vars

\* validateApiKey has just returned null for a key that was active at the
\* start, was revoked since, and has not expired.
C28_Witness ==
  /\ Reported("validateApiKey", "null")
  /\ \E k \in StoredAs(result.value[1]) \cap DOMAIN InitialKeys :
       /\ InitialKeys[k].revoked = FALSE
       /\ InitialKeys[k].expiresAt > now
       /\ apiKeys[k].revoked

\* What request.user may hold when PermissionsGuard runs.
Principals ==
  {[userId |-> 1, permissions |-> ps, authType |-> t] :
     ps \in SUBSET ValidPermissions, t \in {"jwt", "api_key", "none"}}

\* The rows that make a key usable: its hash, not revoked, not expired.
Usable(apiKey) ==
  {k \in StoredAs(apiKey) : ~apiKeys[k].revoked /\ apiKeys[k].expiresAt > now}

\* C29: a wallet operation that requires permission p (deposit, transfer
\* or read) is reached by a request authenticated with an API key only if
\* the key's permission set contains every required permission, otherwise
\* the request is rejected as forbidden before the operation runs; a
\* request authenticated by JWT reaches every operation; a request with
\* any other authentication type is rejected.
C29_PermissionsEnforced ==
  /\ \A user \in Principals :
       \A required \in SUBSET ValidPermissions \ {{}} :
         PermissionsGuard(required, user) = "pass"
           <=> \/ user.authType = "jwt"
               \/ /\ user.authType = "api_key"
                  /\ required \subseteq user.permissions
  /\ [][result'.op = "walletRequest"
              => LET required == result'.value[1]
                     jwt == result'.value[2]
                     apiKey == result'.value[3]
                     byJwt == jwt.kind = "valid" /\ jwt.sub \in DOMAIN users
                 IN  /\ byJwt => result'.outcome = "reached"
                     /\ ~byJwt /\ Usable(apiKey) # {}
                          => \A k \in Usable(apiKey) :
                               result'.outcome
                                 = IF required \subseteq apiKeys[k].permissions
                                   THEN "reached" ELSE "Forbidden"
                     /\ ~byJwt /\ Usable(apiKey) = {}
                          => result'.outcome = "Unauthorized"
                     /\ result'.outcome = "reached"
                          => result'.value[4] \in {"jwt", "api_key"}
                     /\ UNCHANGED <<wallets, txns>>]_vars

\* A request with a usable API key that lacks the permission of the route
\* has just been refused as forbidden.
C29_Witness ==
  /\ Reported("walletRequest", "Forbidden")
  /\ result.value[4] = "api_key"
  /\ \E k \in Usable(result.value[3]) :
       ~(result.value[1] \subseteq apiKeys[k].permissions)

\* ------------------------------------------- claims: account provisioning
\* The wallets of a user.
WalletsOf(ws, u) == {w \in DOMAIN ws : ws[w].userId = u}

\* C30: the first googleLogin for a Google identity creates exactly one
\* user and exactly one wallet with balance 0 for that user; every later
\* googleLogin for the same identity creates neither a user nor a wallet.
\* For every step: no two users have the same Google id; the login that
\* created the user of its identity ends with a token and with the one
\* wallet of that user, created by it with balance 0; a login that finds
\* the user of its identity creates nothing.
C30_LoginProvisionsOnce ==
  [][/\ \A u1, u2 \in DOMAIN users' :
          users'[u1].googleId = users'[u2].googleId => u1 = u2
     /\ \A p \in Procs :
          pc[p] \in {"g_wallet", "g_save"} /\ pc'[p] = "idle"
            => /\ result'.outcome = "success"
               /\ WalletsOf(wallets, loc[p].user) = {}
               /\ Cardinality(WalletsOf(wallets', loc[p].user)) = 1
               /\ \A w \in WalletsOf(wallets', loc[p].user) :
                    wallets'[w].balance = 0
     /\ \A p \in Procs :
          /\ pc[p] = "idle"
          /\ result'.op = "googleLogin"
          /\ result'.proc = p
          => /\ result'.outcome = "success"
             /\ users' = users
             /\ wallets' = wallets]_vars

\* C22: no two wallets ever share a wallet_number, including when two
\* createWallet calls run concurrently and both draw the same candidate
\* after both of their existence checks found it free; every issued
\* wallet_number is 10 digits starting with 45 (the prefix and 8 digits).
C22_UniqueWalletNumbers ==
  /\ \A w1, w2 \in WalletIds :
       wallets[w1].walletNumber = wallets[w2].walletNumber => w1 = w2
  /\ \A w \in WalletIds :
       /\ wallets[w].walletNumber.prefix = 45
       /\ wallets[w].walletNumber.digits \in 10000000..99999999

\* Two logins of new identities drew the same free number; the wallet of
\* one was saved, and the save of the other, whose user has no wallet, has
\* just been refused.
C22_Witness ==
  /\ Reported("googleLogin", "QueryFailed")
  /\ result.value[2] \in DOMAIN users
  /\ WalletsOf(wallets, result.value[2]) = {}
  /\ Len(wallets) = 3

\* ------------------------------------------ claims: concurrent operations
\* Handler q runs a transfer from the sender of handler p's transfer, each
\* for an amount the sender's committed balance covers, but not both.
Overdrawing(p, q) ==
  /\ p # q
  /\ InTransfer(p) /\ InTransfer(q)
  /\ loc[q].sender = loc[p].sender
  /\ loc[p].amount <= wallets[loc[p].sender].balance
  /\ loc[q].amount <= wallets[loc[p].sender].balance
  /\ loc[p].amount + loc[q].amount > wallets[loc[p].sender].balance

\* C31: two transfers from one sender that run concurrently, each for an
\* amount the sender can afford alone but not both, may both pass the
\* unlocked pre-check, but at most one commits: when one commits, the other
\* has not yet read the sender's balance under the lock, and the committed
\* balance no longer covers it; the balance a transfer reads under the lock
\* is the committed one; a transfer that gets its locks and finds the
\* balance short fails with InsufficientFunds; and a transfer that does not
\* succeed changes no balance and adds no row.
C31_ConcurrentOverdraw ==
  [][/\ \A p, q \in Procs :
          TransferCommitted(p) /\ Overdrawing(p, q)
            => /\ pc[q] = "t_lockS"
               /\ pc'[q] = "t_lockS"
               /\ wallets'[loc[q].sender].balance < loc[q].amount
     /\ \A q \in Procs :
          pc'[q] \in {"t_lockR", "t_save"}
            => loc'[q].senderBal = wallets'[loc'[q].sender].balance
     /\ \A q \in Procs :
          ( /\ pc[q] = "t_lockR" /\ pc'[q] # "t_lockR"
            /\ CanLock(lockW, SecondLocked(loc[q]), q)
            /\ wallets[loc[q].sender].balance < loc[q].amount )
          => /\ result'.op = "transfer"
             /\ result'.proc = q
             /\ result'.outcome = "InsufficientBalanceUnderLock"
     /\ (result'.op = "transfer" /\ result'.outcome # "success")
          => wallets' = wallets /\ txns' = txns]_vars

\* Two transfers of the whole balance of wallet 2 passed the pre-check; one
\* has committed and the other has just been refused under the lock, with
\* no deposit credited in between.
C31_Witness ==
  /\ Reported("transfer", "InsufficientBalanceUnderLock")
  /\ credits[3] = 0
  /\ wallets[2].balance = 0
  /\ Len(txns) = 5
  /\ txns[4].type = "transfer_out"
  /\ txns[4].walletId = 2
  /\ txns[4].amount = MinAmount

\* What the step of handler p commits to the balance of wallet w: the debit
\* and the credit of a committed transfer, the credit of a committed
\* reconciliation, nothing otherwise.
CommittedChange(p, w) ==
  (IF TransferCommitted(p) /\ loc[p].recipient = w THEN loc[p].amount ELSE 0)
  - (IF TransferCommitted(p) /\ loc[p].sender = w THEN loc[p].amount ELSE 0)
  + (IF CreditCommitted(p) /\ txns[loc[p].txn].walletId = w
     THEN loc[p].amount ELSE 0)

\* C32: no balance update is lost.  Whatever runs concurrently, every step
\* moves the committed balance of every wallet by exactly what the step
\* commits: a committing transfer takes its amount from the sender's latest
\* committed balance and adds it to the recipient's, a committing
\* reconciliation adds its amount to the wallet's latest committed balance,
\* and no other step changes a balance; so a balance is always its initial
\* value plus all committed credits minus all committed debits.
C32_NoLostUpdate ==
  [][\A w \in WalletIds :
       wallets'[w].balance
         = wallets[w].balance
           + SumSeq([p \in Procs |-> CommittedChange(p, w)], NumProcs)]_vars

\* A transfer from wallet 1 to wallet 2 was the first operation and a
\* reconciliation of the pending deposit of wallet 2 the second; the
\* reconciliation started and committed while the transfer was running,
\* and the transfer has just committed: both amounts are in the balance of
\* wallet 2.
C32_Witness ==
  /\ Reported("transfer", "success")
  /\ result.proc = 1
  /\ ops = 2
  /\ credits[3] = 1
  /\ wallets[1].balance = MinAmount
  /\ wallets[2].balance = 3 * MinAmount

\* ------------------------------------------- claims: ledger and balances
\* Sum of the amounts of the first n rows that are deposits of wallet w
\* with status success.
RECURSIVE SuccessDeposits(_, _)
SuccessDeposits(w, n) ==
  IF n = 0 THEN 0
  ELSE SuccessDeposits(w, n - 1)
       + (IF /\ txns[n].walletId = w
             /\ txns[n].type = "deposit"
             /\ txns[n].status = "success"
          THEN txns[n].amount ELSE 0)

\* C33: in every committed state the balance of every wallet is the sum of
\* its deposit rows with status success plus the sum of its transfer_in
\* rows minus the sum of its transfer_out rows; pending and failed deposit
\* rows count for nothing.
C33_LedgerMatchesBalances ==
  \A w \in WalletIds :
    wallets[w].balance
      = SuccessDeposits(w, Len(txns)) + NetTransfers(w, Len(txns))

\* ------------------------------------------------ claims: deposit order
\* C34: initializeDeposit persists the pending row of a reference before it
\* calls the payment gateway with it.  The step that brings a handler to
\* the gateway call has inserted a deposit row with status pending, the
\* reference and amount the gateway is called with and the caller's wallet;
\* and for as long as the call is in flight, so whenever a webhook for the
\* reference can arrive, a row with that reference, amount and wallet is
\* stored.
C34_RowBeforeGateway ==
  [][\A p \in Procs :
       /\ (pc[p] = "idle" /\ pc'[p] = "d_gateway") =>
            /\ Len(txns') = Len(txns) + 1
            /\ loc'[p].txn = Len(txns')
            /\ txns'[loc'[p].txn].status = "pending"
            /\ \A t \in TxnIds : txns[t].reference # loc'[p].ref
       /\ pc'[p] = "d_gateway" =>
            /\ loc'[p].txn \in DOMAIN txns'
            /\ txns'[loc'[p].txn].reference = loc'[p].ref
            /\ txns'[loc'[p].txn].type = "deposit"
            /\ txns'[loc'[p].txn].amount = loc'[p].amount
            /\ \E w \in DOMAIN wallets' :
                 /\ wallets'[w].userId = loc'[p].user
                 /\ txns'[loc'[p].txn].walletId = w]_vars

\* While the gateway call of a deposit is in flight, a webhook for its
\* reference has arrived and its reconciliation has found and locked the
\* row.
C34_Witness ==
  \E p, q \in Procs :
    /\ pc[p] = "d_gateway"
    /\ pc[q] = "c_lockW"
    /\ loc[q].ref = loc[p].ref
    /\ loc[q].txn = loc[p].txn

\* -------------------------------------------------- claims: lock waits
\* The transaction rows and the wallet rows a handler holds the lock of.
TxnLocksOf(p) == {t \in TxnIds : lockT[t] = p}
WalletLocksOf(p) == {w \in WalletIds : lockW[w] = p}

\* A handler inside creditWalletFromWebhook.
InCredit(p) == pc[p] \in {"c_lockT", "c_lockW"}

\* A reconciliation is in no lock-wait cycle; it holds no lock while it
\* waits for its transaction row, and the lock of that row and of no
\* wallet while it waits for the wallet; no transfer holds or waits for the
\* lock of a transaction row, and no handler that waits for one holds a
\* wallet lock.
CreditLockOrder ==
  \A p \in Procs :
    /\ InCredit(p) => ~InLockWaitCycle(p) /\ WalletLocksOf(p) = {}
    /\ pc[p] = "c_lockT" => TxnLocksOf(p) = {}
    /\ pc[p] = "c_lockW" => TxnLocksOf(p) = {loc[p].txn}
    /\ InTransfer(p) => TxnLocksOf(p) = {} /\ WaitsFor(p)[1] # "txn"
    /\ WaitsFor(p)[1] = "txn" => WalletLocksOf(p) = {}

\* C35: a deposit reconciliation never takes part in a lock-wait cycle: it
\* locks its transaction row and then one wallet row, and no transfer and
\* no other reconciliation holds a wallet lock while it waits for the lock
\* of a transaction row; so every reconciliation that has been called
\* eventually gets its locks and ends.
C35_CreditNeverDeadlocks ==
  /\ []CreditLockOrder
  /\ \A p \in Procs : InCredit(p) ~> pc[p] = "idle"

\* A reconciliation holds the lock of its transaction row and waits for
\* the wallet, whose lock a transfer holds; that transfer is in a lock-wait
\* cycle with a transfer in the opposite direction.
C35_Witness ==
  \E p, q, r \in Procs :
    /\ pc[p] = "c_lockW"
    /\ Blocker(p) = q
    /\ InTransfer(q)
    /\ Blocker(q) = r /\ Blocker(r) = q

\* --------------------------------------------- claims: payment status
\* C36: a webhook delivery that carries the gateway's signature and the
\* event charge.success with a data.status other than success never calls
\* the crediting operation: it is acknowledged with success in the step
\* that takes it, the handler starts no reconciliation, and no transaction
\* row, the referenced one included, no balance and no lock is changed.
C36_UnsuccessfulChargeIgnored ==
  [][\A p \in {q \in Procs :
                 /\ Accepts(q) /\ ops' # ops
                 /\ \/ result'.op \in {"webhook", "credit"}
                    \/ pc'[q] \in {"c_lockT", "c_lockW"}} :
     \A d \in {x \in Deliveries :
                 /\ GatewaySigned(x)
                 /\ x.rawBody[1] = "charge.success"
                 /\ x.rawBody[2] # "success"} :
       HandlePaystackWebhook(p, d.signature, d.rawBody) =>
         /\ result'.op = "webhook"
         /\ result'.outcome = "StatusIgnored"
         /\ result'.response = "ok"
         /\ pc'[p] = "idle"
         /\ txns' = txns
         /\ wallets' = wallets
         /\ credits' = credits
         /\ lockT' = lockT
         /\ lockW' = lockW]_vars

\* A signed charge.success delivery of a payment that did not succeed has
\* just been acknowledged; the deposit pending at the start is still
\* pending and not credited.
C36_Witness ==
  /\ Reported("webhook", "StatusIgnored")
  /\ result.response = "ok"
  /\ txns[3].status = "pending"
  /\ credits[3] = 0
  /\ wallets[2].balance = MinAmount

\* ------------------------------------------------- claims: key rollover
\* The key exists, belongs to the user and has expired.
ExpiredKeyOf(id, u) ==
  /\ id \in DOMAIN apiKeys
  /\ apiKeys[id].userId = u
  /\ apiKeys[id].expiresAt <= now

\* C37: rolloverApiKey succeeds only for a key that exists, belongs to the
\* caller and has expired; a call for any other key, one that is revoked
\* but not yet expired included, is refused at once.  On success it adds
\* one key, active, of the caller, with the name and the permissions of the
\* expired key, and changes no other key, the expired one included; a
\* rollover that is refused, at whatever point, creates no key.
C37_RolloverOnlyExpired ==
  [][/\ \A p \in Procs :
          /\ (pc[p] = "idle" /\ pc'[p] = "r_count")
               => /\ ExpiredKeyOf(loc'[p].keyId, loc'[p].user)
                  /\ loc'[p].name = apiKeys[loc'[p].keyId].name
                  /\ loc'[p].permissions = apiKeys[loc'[p].keyId].permissions
          /\ ( /\ result'.op = "rolloverApiKey"
               /\ result'.proc = p
               /\ result'.outcome = "success" )
               => /\ pc[p] = "k_save"
                  /\ ExpiredKeyOf(loc[p].keyId, loc[p].user)
                  /\ Len(apiKeys') = Len(apiKeys) + 1
                  /\ SubSeq(apiKeys', 1, Len(apiKeys)) = apiKeys
                  /\ LET new == apiKeys'[Len(apiKeys')]
                         old == apiKeys[loc[p].keyId]
                     IN  /\ new.userId = loc[p].user
                         /\ new.name = old.name
                         /\ new.permissions = old.permissions
                         /\ new.revoked = FALSE
                         /\ new.expiresAt > now
                         /\ new.keyHash # old.keyHash
     /\ (result'.op = "rolloverApiKey" /\ result'.outcome # "success")
          => apiKeys' = apiKeys
     /\ \A p \in {q \in Procs :
                    /\ Accepts(q) /\ ops' # ops
                    /\ \/ result'.op = "rolloverApiKey"
                       \/ pc'[q] = "r_count"} :
        \A u \in Users, id \in KeyIdInputs, expiry \in ExpiryInputs :
          RolloverStart(p, u, id, expiry) /\ ~ExpiredKeyOf(id, u)
            => /\ result'.op = "rolloverApiKey"
               /\ result'.outcome \in {"KeyNotFound", "NotExpired"}
               /\ pc'[p] = "idle"
               /\ id \in DOMAIN apiKeys /\ apiKeys[id].userId = u
                    => result'.outcome = "NotExpired"]_vars

\* The expired key of the second user has just been rolled over: the new
\* key has its name and permissions, and the expired key and the revoked
\* key of that user are as they were.
C37_Witness ==
  /\ Reported("rolloverApiKey", "success")
  /\ Len(apiKeys) > Len(InitialKeys)
  /\ apiKeys[Len(apiKeys)].userId = 2
  /\ apiKeys[Len(apiKeys)].name = InitialKeys[5].name
  /\ apiKeys[Len(apiKeys)].permissions = InitialKeys[5].permissions
  /\ apiKeys[5] = InitialKeys[5]
  /\ apiKeys[6] = InitialKeys[6]

\* ------------------------------------- claims: user and wallet together
\* The users created by a googleLogin, and those whose login is still
\* between the save of the user and the save of the wallet.
CreatedByLogin == DOMAIN users \ Users
LoginRunningFor(u) ==
  \E p \in Procs : pc[p] \in {"g_wallet", "g_save"} /\ loc[p].user = u

\* C38: user creation and wallet creation in googleLogin take effect
\* together.  Once the googleLogin that created a user has returned or
\* failed, the user has a wallet, also when the creation of the wallet
\* failed after the user row was saved; and a later googleLogin that
\* returns a token for such a user leaves the user with a wallet.
C38_UserAndWalletTogether ==
  /\ \A u \in CreatedByLogin :
       ~LoginRunningFor(u) => WalletsOf(wallets, u) # {}
  /\ ( /\ Reported("googleLogin", "success")
       /\ result.value[2] \in CreatedByLogin
       /\ ~LoginRunningFor(result.value[2]) )
       => WalletsOf(wallets, result.value[2]) # {}

====
